---- MODULE Spec2Model ----
(***************************************************************************)
(* A model of veneer: the inline usage parser, the structural extractor,   *)
(* the component registry, the page build of the static builder, the site  *)
(* build and its navigation, the MDX parser and its frontmatter, the       *)
(* generated element class, and the file watching and hot-reload path of   *)
(* the dev server.                                                         *)
(*                                                                         *)
(* Rust's Option<T> is a sequence of length 0 (None) or 1 (Some(v)).       *)
(* Text is a sequence of one-character strings; positions are the 0-based  *)
(* byte offsets of the source.                                             *)
(***************************************************************************)
EXTENDS Integers, Sequences, FiniteSets, TLC

VARIABLES
    \* ---- inline usage parser (veneer-adapters/src/inline.rs)
    toks,        \* the usage snippet as written, token by token
    src,         \* source: &str of parse_inline_jsx, after trim()
    ipc,         \* position in parse_inline_jsx: "start" | "scan" | "done"
    component,   \* the component captured by OPEN_RE
    props_str,   \* the props text captured by OPEN_RE
    open_len,    \* open_caps.get(0).len(), the start_pos of the scan
    depth,       \* find_matching_close_tag: depth
    pos,         \* find_matching_close_tag: pos
    jsx,         \* Option<InlineJsx>, the result
    \* ---- structural extractor (veneer-adapters/src/react.rs)
    esource,     \* source: &str of extract_structure / transform, as lexical items
    epc,         \* "start" | "extracted" | "transformed"
    eresult,     \* the Result returned
    \* ---- component registry (veneer-adapters/src/registry.rs)
    disk,        \* the files under components_dir: file name -> Option<content>
    dir_exists,  \* components_dir.exists()
    components,  \* ComponentRegistry::components, as (key, CachedComponent) pairs
    rresult,     \* what the scan just run returned; None once the directory changed
    \* ---- page build (veneer-static/src/builder.rs, build_page)
    doc,         \* the page body: its code fences in order, each [info, lines]
    ppc,         \* "start" | "built"
    page,        \* what build_page computed: web_components, block_replacements, ...
    presult,     \* Option<Result<(usize, usize), BuildError>> returned by build_page
    \* ---- site build (veneer-static/src/builder.rs, build)
    sfiles,      \* the files under docs_dir
    spc,         \* "start" | "building" | "done"
    pages,       \* Vec<PageInfo> returned by discover_pages
    task,        \* per page, how far its build_page task has come
    written,     \* the output files written so far, each with the page that wrote it
    sresult,     \* Option<Result<BuildResult, BuildError>> returned by build
    locals,      \* per page task: the locals of its build_page and the next block of its loop
    \* ---- browser host and hot reload (generator.rs, websocket.rs, server.rs)
    host,        \* which globals the host defines: "browser" | "shim" | "bare"
    registered,  \* the customElements registry: (tag, class version) pairs
    last_eval,   \* the last evaluation of an artifact: tag, whether defined before, error
    channel,     \* HmrMessages sent by the server and not yet handled by the client
    edits,       \* how many watch events the server has handled
    \* ---- the generated element class at run time (generator.rs, the artifact)
    styleSheets,   \* document.styleSheets: per sheet, whether its cssRules are readable
    cachedSheets,  \* the module-level cache: None (null) or Some(sheets)
    adopted,       \* per element instance: shadowRoot.adoptedStyleSheets
    button,        \* per element instance: #button, None (null) or Some(the button made by render n)
    shadow,        \* per element instance: the children of its shadowRoot
    reads,         \* how many times document.styleSheets was iterated
    assigns,       \* how many times cachedSheets was assigned
    connects,      \* how many connectedCallbacks ran
    \* ---- MDX parser (veneer-mdx/src/parser.rs, frontmatter.rs)
    msource,     \* source: &str of parse_mdx: its frontmatter and its body, block by block
    mpc,         \* "start" | "parsed"
    mdoc,        \* Option<Result<ParsedDoc, ParseError>> returned by parse_mdx
    \* ---- one call of a pure function (to_custom_element, slugify)
    arg,         \* Option of the arguments of the call
    ret,         \* Option of the value returned
    \* ---- navigation (veneer-static/src/builder.rs, build_navigation)
    npages,      \* pages: &[PageInfo], as discover_pages ordered them
    navs,        \* the Vec<NavItem> returned by each run on npages so far
    \* ---- file watching of the dev server (watcher.rs, server.rs)
    changes,     \* the file events the watched directories have seen, in order
    sync_q,      \* sync_tx -> sync_rx: notify events waiting for the forwarder thread
    quiet,       \* whether debounce_duration has passed since last_event_time
    async_q,     \* async_tx -> rx: WatchEvents waiting for handle_watch_event
    answered,    \* the HmrMessages sent: the change, the message, the changes seen by then
    dropped      \* the changes whose event was discarded on the way

inlineVars == <<toks, src, ipc, component, props_str, open_len, depth, pos, jsx>>
extractVars == <<esource, epc, eresult>>

registryVars == <<disk, dir_exists, components, rresult>>
pageVars == <<doc, ppc, page, presult>>
siteVars == <<sfiles, spc, pages, task, written, sresult, locals>>
hmrVars == <<host, registered, last_eval, channel, edits>>

elementVars == <<styleSheets, cachedSheets, adopted, button, shadow, reads, assigns, connects>>

\* the parts added to the model after the first six
mdxVars == <<msource, mpc, mdoc>>
callVars == <<arg, ret>>
navVars == <<npages, navs>>
watchVars == <<changes, sync_q, quiet, async_q, answered, dropped>>
extraVars == <<elementVars, mdxVars, callVars, navVars, watchVars>>

vars == <<inlineVars, extractVars, registryVars, pageVars, siteVars, hmrVars, extraVars>>

\* what the steps of one part leave alone
notInline == <<extractVars, registryVars, pageVars, siteVars, hmrVars, extraVars>>
notExtract == <<inlineVars, registryVars, pageVars, siteVars, hmrVars, extraVars>>
notRegistry == <<inlineVars, extractVars, pageVars, siteVars, hmrVars, extraVars>>
notPage == <<inlineVars, extractVars, registryVars, siteVars, hmrVars, extraVars>>
notSite == <<inlineVars, extractVars, registryVars, pageVars, hmrVars, extraVars>>
notHmr == <<inlineVars, extractVars, registryVars, pageVars, siteVars, extraVars>>
firstVars == <<inlineVars, extractVars, registryVars, pageVars, siteVars, hmrVars>>
notElement == <<firstVars, mdxVars, callVars, navVars, watchVars>>
notMdx == <<firstVars, elementVars, callVars, navVars, watchVars>>
notCall == <<firstVars, elementVars, mdxVars, navVars, watchVars>>
notNav == <<firstVars, elementVars, mdxVars, callVars, watchVars>>
notWatch == <<firstVars, elementVars, mdxVars, callVars, navVars>>

None == <<>>
Some(v) == <<v>>

\* the parts of the state a specification leaves out stay as they are here
InlineIdle ==
    /\ toks = <<>> /\ src = <<>> /\ ipc = "idle" /\ component = <<>> /\ props_str = <<>>
    /\ open_len = 0 /\ depth = 0 /\ pos = 0 /\ jsx = None

ExtractIdle == esource = <<>> /\ epc = "idle" /\ eresult = None

RegistryIdle ==
    disk = <<>> /\ dir_exists = FALSE /\ components = {} /\ rresult = None

PageIdle == doc = <<>> /\ ppc = "idle" /\ page = None /\ presult = None

SiteIdle ==
    /\ sfiles = {} /\ spc = "idle" /\ pages = <<>> /\ task = <<>>
    /\ written = {} /\ sresult = None /\ locals = <<>>

HmrIdle ==
    /\ host = "idle" /\ registered = {} /\ last_eval = None
    /\ channel = <<>> /\ edits = 0

ElementIdle ==
    /\ styleSheets = <<>> /\ cachedSheets = None /\ adopted = <<>> /\ button = <<>> /\ shadow = <<>>
    /\ reads = 0 /\ assigns = 0 /\ connects = 0

MdxIdle == msource = <<>> /\ mpc = "idle" /\ mdoc = None

CallIdle == arg = None /\ ret = None

NavIdle == npages = <<>> /\ navs = <<>>

WatchIdle ==
    /\ changes = <<>> /\ sync_q = <<>> /\ quiet = FALSE /\ async_q = <<>>
    /\ answered = {} /\ dropped = {}

ExtraIdle == ElementIdle /\ MdxIdle /\ CallIdle /\ NavIdle /\ WatchIdle

FirstIdle ==
    InlineIdle /\ ExtractIdle /\ RegistryIdle /\ PageIdle /\ SiteIdle /\ HmrIdle

Ok(v) == <<"Ok", v>>
Err(e) == <<"Err", e>>
IsOk(r) == r[1] = "Ok"

(***************************************************************************)
(* Bounds of the model.                                                    *)
(***************************************************************************)
MaxTokens == 3
MaxItems == 4
MaxFiles == 2
MaxLines == 3
MaxPages == 2
MaxEdits == 2
MaxQueue == 2
MaxSheets == 2
MaxConnects == 3
MaxRenders == 3
MaxBlocks == 3
MaxChars == 3
MaxParts == 3
MaxNavPages == 3
MaxRuns == 2

(***************************************************************************)
(* Text helpers: the str methods the code calls.                           *)
(***************************************************************************)
\* the character classes of the regexes, over the characters the snippets use
Upper == {"C", "A"}
Alpha == {"C", "A", "a", "b", "x"}
Alnum == Alpha
IsSpace(c) == c \in {" ", "\t", "\n"}
IsUpper(c) == c \in Upper

StartsWith(s, p) == Len(p) <= Len(s) /\ SubSeq(s, 1, Len(p)) = p

\* &s[n..]
Drop(s, n) == SubSeq(s, n + 1, Len(s))

\* s.find(p): the 0-based offset of the first occurrence, or None
Find(s, p) ==
    LET hits == {i \in 0..(Len(s) - Len(p)) : StartsWith(Drop(s, i), p)}
    IN  IF hits = {} THEN None
        ELSE Some(CHOOSE i \in hits : \A j \in hits : i <= j)

\* s.trim_start()
TrimStart(s) ==
    LET n == Len(s)
        lead == {i \in 0..n : \A k \in 1..i : IsSpace(s[k])}
        m == CHOOSE i \in lead : \A j \in lead : j <= i
    IN  Drop(s, m)

\* s.trim_end()
TrimEnd(s) ==
    LET n == Len(s)
        tail == {i \in 0..n : \A k \in (n - i + 1)..n : IsSpace(s[k])}
        m == CHOOSE i \in tail : \A j \in tail : j <= i
    IN  SubSeq(s, 1, n - m)

\* s.trim()
Trim(s) == TrimEnd(TrimStart(s))

RECURSIVE Flatten(_)
Flatten(ss) == IF ss = <<>> THEN <<>> ELSE Head(ss) \o Flatten(Tail(ss))

\* the length of the longest prefix of s whose characters are all in S
PrefixLen(s, S) ==
    LET run == {i \in 0..Len(s) : \A k \in 1..i : s[k] \in S}
    IN  CHOOSE i \in run : \A j \in run : j <= i

\* the length of the longest prefix of s with no character of S
PrefixLenNot(s, S) ==
    LET run == {i \in 0..Len(s) : \A k \in 1..i : s[k] \notin S}
    IN  CHOOSE i \in run : \A j \in run : j <= i

(***************************************************************************)
(* Inline usage parser (veneer-adapters/src/inline.rs).                    *)
(***************************************************************************)

\* The tokens a usage snippet is written from.  Every character class that
\* find_matching_close_tag tells apart after the tag name occurs in one.
OpenPlain == <<"<", "C", ">">>
OpenSpace == <<"<", "C", " ", "a", ">">>
OpenTab == <<"<", "C", "\t", "a", ">">>
CloseC == <<"<", "/", "C", ">">>
SelfPlain == <<"<", "C", "/", ">">>
SelfSpace == <<"<", "C", " ", "/", ">">>
SelfTab == <<"<", "C", "\t", "/", ">">>
SelfAttr == <<"<", "C", " ", "a", "/", ">">>
OtherOpen == <<"<", "C", "x", ">">>
TextX == <<"x">>

\* open tags that carry each form of prop; OpenArrow holds a `>` in its expression
OpenStr == <<"<", "C", " ", "a", "=", "\"", "x", "\"", ">">>
OpenApos == <<"<", "C", " ", "a", "=", "'", "x", "'", ">">>
OpenExpr == <<"<", "C", " ", "a", "=", "{", "x", "}", ">">>
OpenBoth == <<"<", "C", " ", "a", "=", "\"", "x", "\"", " ", "b", ">">>
OpenArrow == <<"<", "C", " ", "a", "=", "{", "x", ">", "b", "}", ">">>
AttrOpens == {OpenStr, OpenApos, OpenExpr, OpenBoth, OpenArrow}

OpenTokens == {OpenPlain, OpenSpace, OpenTab}
SelfTokens == {SelfPlain, SelfSpace, SelfTab, SelfAttr}
TokenSet == OpenTokens \cup SelfTokens \cup {CloseC, OtherOpen, TextX}

\* the snippets: one token alone, or an open tag followed by up to n more
RECURSIVE SeqsUpTo(_, _)
SeqsUpTo(S, n) ==
    IF n = 0 THEN {<<>>}
    ELSE LET shorter == SeqsUpTo(S, n - 1)
         IN  shorter \cup {Append(q, t) : q \in {r \in shorter : Len(r) = n - 1}, t \in S}
Snippets(n) ==
    {<<t>> : t \in TokenSet} \cup {<<OpenPlain>> \o rest : rest \in SeqsUpTo(TokenSet, n)}
    \cup {<<o>> \o rest : o \in AttrOpens, rest \in SeqsUpTo(TokenSet, n - 1)}

\* ^<([A-Z][a-zA-Z0-9]*) of both tag regexes: the captured name
TagName(s) ==
    IF Len(s) >= 2 /\ s[1] = "<" /\ IsUpper(s[2])
    THEN Some(SubSeq(s, 2, 2 + PrefixLen(Drop(s, 2), Alnum)))
    ELSE None

String(s) == [kind |-> "String", text |-> s, flag |-> TRUE]
Boolean(b) == [kind |-> "Boolean", text |-> <<>>, flag |-> b]
Expression(s) == [kind |-> "Expression", text |-> s, flag |-> TRUE]

\* the optional value of PROP_RE: (?:\s*=\s*(?:"([^"]*)"|'([^']*)'|\{([^}]*)\}))?
\* on the text after a prop name: [ok, value, rest]
PropAssign(after) ==
    LET a1 == TrimStart(after)
        a2 == TrimStart(Drop(a1, 1))
        closer == IF StartsWith(a2, <<"\"">>) THEN <<"\"">>
                  ELSE IF StartsWith(a2, <<"'">>) THEN <<"'">>
                  ELSE IF StartsWith(a2, <<"{">>) THEN <<"}">>
                  ELSE <<>>
        body == Drop(a2, 1)
        endAt == IF closer = <<>> THEN None ELSE Find(body, closer)
    IN  IF StartsWith(a1, <<"=">>) /\ endAt # None
        THEN [ok |-> TRUE,
              value |-> IF closer = <<"}">>
                        THEN Expression(SubSeq(body, 1, endAt[1]))
                        ELSE String(SubSeq(body, 1, endAt[1])),
              rest |-> Drop(body, endAt[1] + 1)]
        ELSE [ok |-> FALSE, value |-> Boolean(TRUE), rest |-> after]

\* PROP_RE.captures_iter(props_str), each match inserted into the map
RECURSIVE PropsFrom(_, _)
PropsFrom(s, acc) ==
    LET skip == PrefixLenNot(s, Alpha)
        t == Drop(s, skip)
        n == PrefixLen(t, Alnum)
        name == SubSeq(t, 1, n)
        m == PropAssign(Drop(t, n))
    IN  IF skip = Len(s) THEN acc
        ELSE PropsFrom(m.rest, (name :> m.value) @@ acc)

parse_props(str) ==
    LET trimmed == Trim(str)
    IN  IF trimmed = <<>> THEN <<>> ELSE PropsFrom(trimmed, <<>>)

\* RE of parse_self_closing: ^<([A-Z][a-zA-Z0-9]*)\s*([^/>]*?)\s*/>
parse_self_closing(source) ==
    LET nm == TagName(source)
        rest == Drop(source, 1 + Len(nm[1]))
        k == PrefixLenNot(rest, {"/", ">"})
    IN  IF nm # None /\ StartsWith(Drop(rest, k), <<"/", ">">>)
        THEN Some([component |-> nm[1],
                   props |-> parse_props(Trim(SubSeq(rest, 1, k))),
                   children |-> None,
                   self_closing |-> TRUE])
        ELSE None

\* OPEN_RE of parse_with_children: ^<([A-Z][a-zA-Z0-9]*)\s*([^>]*)>
OpenCaps(source) ==
    LET nm == TagName(source)
        rest == Drop(source, 1 + Len(nm[1]))
        k == PrefixLenNot(rest, {">"})
    IN  IF nm # None /\ k < Len(rest)
        THEN Some([component |-> nm[1],
                   props_str |-> TrimStart(SubSeq(rest, 1, k)),
                   open_len |-> 1 + Len(nm[1]) + k + 1])
        ELSE None

open_pattern(comp) == <<"<">> \o comp
close_tag(comp) == <<"<", "/">> \o comp \o <<">">>
remaining == Drop(src, open_len)

\* the tail of parse_with_children once the close tag is found at close_pos;
\* oc holds the captures of OPEN_RE
WithChildren(source, oc, close_pos) ==
    LET children == Trim(SubSeq(source, oc.open_len + 1, close_pos))
    IN  Some([component |-> oc.component,
              props |-> parse_props(oc.props_str),
              children |-> IF children = <<>> THEN None ELSE Some(children),
              self_closing |-> FALSE])

\* the state of the while loop of find_matching_close_tag after an iteration:
\* still going, or returned `found`
Going(p, d) == [fin |-> FALSE, found |-> None, pos |-> p, depth |-> d]
Returned(f, p, d) == [fin |-> TRUE, found |-> f, pos |-> p, depth |-> d]

\* a close tag met at offset c of remaining[pos..]
CloseStep(comp, p, d, c) ==
    IF d - 1 = 0
    THEN Returned(Some(p + c), p, d - 1)
    ELSE Going(p + c + Len(close_tag(comp)), d - 1)

\* an occurrence of open_pattern met at offset o of remaining[pos..]
OpenStep(rem, comp, p, d, o) ==
    LET tag_start == p + o
        after_name == Drop(rem, tag_start + Len(open_pattern(comp)))
    IN  IF \/ StartsWith(after_name, <<"/", ">">>)
           \/ StartsWith(after_name, <<" ", "/", ">">>)
           \/ /\ StartsWith(after_name, <<"\t">>)
              /\ StartsWith(TrimStart(after_name), <<"/", ">">>)
        THEN Going(tag_start + Len(open_pattern(comp)), d)
        ELSE IF \/ StartsWith(after_name, <<">">>)
                \/ StartsWith(after_name, <<" ">>)
                \/ StartsWith(after_name, <<"\n">>)
        THEN Going(tag_start + Len(open_pattern(comp)), d + 1)
        ELSE Going(tag_start + 1, d)

\* one iteration of the while loop of find_matching_close_tag
ScanIter(rem, comp, p, d) ==
    LET next_open == Find(Drop(rem, p), open_pattern(comp))
        next_close == Find(Drop(rem, p), close_tag(comp))
    IN  IF next_close = None THEN Returned(None, p, d)
        ELSE IF next_open = None THEN CloseStep(comp, p, d, next_close[1])
        ELSE IF next_open[1] < next_close[1] THEN OpenStep(rem, comp, p, d, next_open[1])
        ELSE IF next_close[1] < next_open[1] THEN CloseStep(comp, p, d, next_close[1])
        ELSE Going(p + next_open[1] + 1, d)

\* find_matching_close_tag, run to its end: the offset of the close tag in
\* remaining, or None
RECURSIVE ScanFrom(_, _, _, _)
ScanOn(rem, comp, r) == IF r.fin THEN r.found ELSE ScanFrom(rem, comp, r.pos, r.depth)
ScanFrom(rem, comp, p, d) ==
    IF ~(d > 0 /\ p < Len(rem)) THEN None
    ELSE ScanOn(rem, comp, ScanIter(rem, comp, p, d))

find_matching_close_tag(rem, comp) == ScanFrom(rem, comp, 0, 1)

\* parse_with_children after OPEN_RE matched (oc) and after the scan (close)
WithClose(source, oc, close) ==
    IF close = None THEN None ELSE WithChildren(source, oc, oc.open_len + close[1])
WithOpen(source, oc) ==
    IF oc = None THEN None
    ELSE WithClose(source, oc[1],
             find_matching_close_tag(Drop(source, oc[1].open_len), oc[1].component))
parse_with_children(source) == WithOpen(source, OpenCaps(source))

\* Option::or_else
OrElse(first, second) == IF first # None THEN first ELSE second

parse_inline_jsx(source) ==
    OrElse(parse_self_closing(Trim(source)), parse_with_children(Trim(source)))

InlineInit ==
    /\ toks \in Snippets(MaxTokens)
    /\ src = Trim(Flatten(toks))
    /\ ipc = "start"
    /\ component = <<>>
    /\ props_str = <<>>
    /\ open_len = 0
    /\ depth = 0
    /\ pos = 0
    /\ jsx = None

\* parse_inline_jsx up to the call of find_matching_close_tag
ParseStart ==
    /\ ipc = "start"
    /\ LET sc == parse_self_closing(src)
           oc == OpenCaps(src)
       IN  IF sc # None
           THEN /\ jsx' = sc
                /\ ipc' = "done"
                /\ UNCHANGED <<component, props_str, open_len, depth, pos>>
           ELSE IF oc = None
           THEN /\ jsx' = None
                /\ ipc' = "done"
                /\ UNCHANGED <<component, props_str, open_len, depth, pos>>
           ELSE /\ component' = oc[1].component
                /\ props_str' = oc[1].props_str
                /\ open_len' = oc[1].open_len
                /\ depth' = 1
                /\ pos' = 0
                /\ ipc' = "scan"
                /\ UNCHANGED jsx
    /\ UNCHANGED <<toks, src>>
    /\ UNCHANGED notInline

\* one iteration of the while loop of find_matching_close_tag
ScanStep ==
    /\ ipc = "scan"
    /\ depth > 0 /\ pos < Len(remaining)
    /\ LET r == ScanIter(remaining, component, pos, depth)
       IN  /\ pos' = r.pos
           /\ depth' = r.depth
           /\ IF r.fin
              THEN /\ ipc' = "done"
                   /\ jsx' = IF r.found = None THEN None
                             ELSE WithChildren(src,
                                      [component |-> component, props_str |-> props_str,
                                       open_len |-> open_len],
                                      open_len + r.found[1])
              ELSE UNCHANGED <<jsx, ipc>>
    /\ UNCHANGED <<toks, src, component, props_str, open_len>>
    /\ UNCHANGED notInline

\* the while condition fails: find_matching_close_tag returns None
ScanExit ==
    /\ ipc = "scan"
    /\ ~(depth > 0 /\ pos < Len(remaining))
    /\ jsx' = None
    /\ ipc' = "done"
    /\ UNCHANGED <<toks, src, component, props_str, open_len, depth, pos>>
    /\ UNCHANGED notInline

InlineNext == ParseStart \/ ScanStep \/ ScanExit

InitInline == ExtractIdle /\ RegistryIdle /\ PageIdle /\ SiteIdle /\ HmrIdle /\ ExtraIdle /\ InlineInit

SpecInline == InitInline /\ [][InlineNext]_vars

(***************************************************************************)
(* The element structure of a snippet, read off its tokens.                *)
(***************************************************************************)
TokDelta(t) == IF t \in OpenTokens THEN 1 ELSE IF t = CloseC THEN 0 - 1 ELSE 0

RECURSIVE DepthAfter(_, _)
DepthAfter(ts, k) == IF k = 0 THEN 0 ELSE DepthAfter(ts, k - 1) + TokDelta(ts[k])

\* the token closing the element that token 1 opens: the first at which the
\* nesting depth is back to zero
ClosingTokens(ts) ==
    {k \in 2..Len(ts) : DepthAfter(ts, k) = 0 /\ \A j \in 1..(k - 1) : DepthAfter(ts, j) > 0}

\* the element of token 1 has a close tag, and its children are made of
\* same-named open and close tags, other tags and text only
ProperlyNested(ts) ==
    /\ ts[1] \in OpenTokens
    /\ ClosingTokens(ts) # {}
    /\ \A k \in ClosingTokens(ts) :
          /\ \A j \in 2..(k - 1) : ts[j] \notin SelfTokens
          /\ \E j \in 2..(k - 1) : ts[j] \in OpenTokens

ChildrenText(ts) ==
    LET k == CHOOSE c \in ClosingTokens(ts) : TRUE
    IN  Trim(Flatten(SubSeq(ts, 2, k - 1)))

\* C2: for an element whose children hold properly nested same-named open and
\* close tags, parse_inline_jsx returns the outer element: the close tag it
\* stops at is the one where the depth first returns to zero, so the children
\* are everything between the outer open tag and that close tag.
C2_OuterCloseTag ==
    (ipc = "done" /\ ProperlyNested(toks)) =>
        /\ jsx # None
        /\ jsx[1].component = <<"C">>
        /\ jsx[1].self_closing = FALSE
        /\ jsx[1].children = Some(ChildrenText(toks))

\* the element of token 1 is opened and never closed
Unbalanced(ts) == ts[1] \in OpenTokens /\ ClosingTokens(ts) = {}

\* a step of parse_inline_jsx brings it nearer to its end: it leaves the start,
\* and an iteration of the scan either returns or leaves less of `remaining`
\* ahead of pos (the loop runs only while pos < remaining.len())
Progress ==
    /\ ipc = "start" => ipc' \in {"scan", "done"}
    /\ ipc = "scan" =>
          \/ ipc' = "done"
          \/ ipc' = "scan" /\ pos < pos' /\ pos' <= Len(remaining) + Len(close_tag(component))
    /\ ipc # "done"

\* C14: parse_inline_jsx terminates on every input (each of its steps makes
\* progress towards a bounded end), and when the opened component has no
\* balancing close tag it ends with None.
C14_TerminatesWithNone ==
    /\ [][Progress]_vars
    /\ []((ipc = "done" /\ Unbalanced(toks)) => jsx = None)

\* parse_inline_jsx terminates on every input
InlineTerminates == [][Progress]_vars

\* the props an open tag is written with
WrittenProps(t) ==
    CASE t = OpenPlain -> <<>>
      [] t \in {OpenSpace, OpenTab} -> (<<"a">> :> Boolean(TRUE))
      [] t \in {OpenStr, OpenApos} -> (<<"a">> :> String(<<"x">>))
      [] t = OpenExpr -> (<<"a">> :> Expression(<<"x">>))
      [] t = OpenBoth -> (<<"a">> :> String(<<"x">>)) @@ (<<"b">> :> Boolean(TRUE))
      [] t = OpenArrow -> (<<"a">> :> Expression(<<"x", ">", "b">>))

\* <C ...attrs>text</C>: an open tag, text, and the close tag
TextElement(ts) ==
    /\ Len(ts) >= 3
    /\ ts[1] \in OpenTokens \cup AttrOpens
    /\ ts[Len(ts)] = CloseC
    /\ \A k \in 2..(Len(ts) - 1) : ts[k] = TextX

\* C18: for <Name ...attrs>text</Name>, parse_inline_jsx returns the
\* component, self_closing = false, the trimmed text as children, and props
\* mapping name="str" / name='str' to String, a bare name to Boolean(true)
\* and name={expr} to Expression of the expression text.
C18_WithChildrenParsed ==
    (ipc = "done" /\ TextElement(toks)) =>
        jsx = Some([component |-> <<"C">>,
                    props |-> WrittenProps(toks[1]),
                    children |-> Some(Trim(Flatten(SubSeq(toks, 2, Len(toks) - 1)))),
                    self_closing |-> FALSE])

\* the same, for the open tags whose attributes hold no `>`
WithChildrenParsedPlain ==
    (ipc = "done" /\ TextElement(toks) /\ toks[1] # OpenArrow) =>
        jsx = Some([component |-> <<"C">>,
                    props |-> WrittenProps(toks[1]),
                    children |-> Some(Trim(Flatten(SubSeq(toks, 2, Len(toks) - 1)))),
                    self_closing |-> FALSE])

\* <C>...</C> whose children are text and self-closing occurrences of C, drawn
\* from the given forms, with at least one such occurrence
HoldsSelfClosing(ts, forms) ==
    /\ Len(ts) >= 3
    /\ ts[1] = OpenPlain
    /\ ts[Len(ts)] = CloseC
    /\ \A k \in 2..(Len(ts) - 1) : ts[k] \in forms \cup {TextX}
    /\ \E k \in 2..(Len(ts) - 1) : ts[k] \in forms

\* C24: a self-closing occurrence of the same component inside the children
\* (<C/>, <C />, <C attrs/>) leaves the depth as it is, so the close tag of
\* the outer element is the one returned.
C24_SelfClosingSkipped ==
    (ipc = "done" /\ HoldsSelfClosing(toks, SelfTokens)) =>
        /\ jsx # None
        /\ jsx[1].children = Some(Trim(Flatten(SubSeq(toks, 2, Len(toks) - 1))))
        /\ depth = 0

\* the same, for the self-closing forms without attributes
SelfClosingWithoutAttrs ==
    (ipc = "done" /\ HoldsSelfClosing(toks, {SelfPlain, SelfSpace, SelfTab})) =>
        /\ jsx # None
        /\ jsx[1].children = Some(Trim(Flatten(SubSeq(toks, 2, Len(toks) - 1))))
        /\ depth = 0

(***************************************************************************)
(* Structural extractor (veneer-adapters/src/react.rs).                    *)
(*                                                                         *)
(* A component source is the sequence of the lexical items the extraction  *)
(* regexes match, in source order:                                         *)
(*   <<"const", name, "">>     `const name = {`      (RECORD_RE, capture 1) *)
(*   <<"entry", key, value>>   `key: 'value'`        (ENTRY_RE)             *)
(*   <<"function", Name, "">>  `function Name`       (COMPONENT_NAME_RE)    *)
(*   <<"base", classes, "">>   `const baseClasses = 'classes'`              *)
(*   <<"disabled", classes, "">> `disabledClasses = 'classes'`              *)
(* The body of a record (RECORD_RE, capture 2) is the run of entries that  *)
(* follows its `const` item.                                               *)
(***************************************************************************)
Keys == {"default", "secondary"}
ClassStrings == {"bg-a", "bg-b"}
Items ==
    {<<"const", n, "">> : n \in {"variantClasses", "sizeClasses", "otherClasses"}}
    \cup {<<"entry", k, v>> : k \in Keys, v \in ClassStrings}
    \cup {<<"function", "Button", "">>, <<"base", "inline-flex", "">>,
          <<"disabled", "opacity-25", "">>}
Sources(n) == SeqsUpTo(Items, n)

DefaultDisabledClasses == "opacity-50 pointer-events-none cursor-not-allowed"

\* the entries of the record body that starts at item i
RECURSIVE BodyFrom(_, _)
BodyFrom(source, i) ==
    IF i <= Len(source) /\ source[i][1] = "entry"
    THEN <<<<source[i][2], source[i][3]>>>> \o BodyFrom(source, i + 1)
    ELSE <<>>

\* extract_record: the entries of every record named `name`, in source order
RECURSIVE RecordFrom(_, _, _)
RecordFrom(source, name, i) ==
    IF i > Len(source) THEN <<>>
    ELSE IF source[i][1] = "const" /\ source[i][2] = name
    THEN BodyFrom(source, i + 1) \o RecordFrom(source, name, i + 1)
    ELSE RecordFrom(source, name, i + 1)

\* extract_record refusing a source that declares no record of that name
extract_record_strict(source, name) ==
    IF \E i \in 1..Len(source) : source[i] = <<"const", name, "">>
    THEN Ok(RecordFrom(source, name, 1))
    ELSE Err("ParseError")

\* extract_record handing out the entries last first
extract_record_reversed(source, name) ==
    Ok([i \in 1..Len(RecordFrom(source, name, 1)) |->
           RecordFrom(source, name, 1)[Len(RecordFrom(source, name, 1)) + 1 - i]])

extract_record(source, name) == Ok(RecordFrom(source, name, 1))

\* the first item of a kind: Regex::captures
FirstOf(source, kind) ==
    LET at == {i \in 1..Len(source) : source[i][1] = kind}
    IN  IF at = {} THEN None
        ELSE Some(source[CHOOSE i \in at : \A j \in at : i <= j][2])

extract_component_name(source) == FirstOf(source, "function")
extract_base_classes(source) == FirstOf(source, "base")
extract_disabled_classes(source) == FirstOf(source, "disabled")

\* Option::unwrap_or
UnwrapOr(o, d) == IF o = None THEN d ELSE o[1]

\* the common attributes of extract_attributes: source.contains(attr)
extract_attributes(source) ==
    LET hasVariant == \E i \in 1..Len(source) : source[i][2] = "variantClasses"
        hasSize == \E i \in 1..Len(source) : source[i][2] = "sizeClasses"
        hasDisabled == \E i \in 1..Len(source) : source[i][1] = "disabled"
    IN  (IF hasVariant THEN <<"variant">> ELSE <<>>)
        \o (IF hasSize THEN <<"size">> ELSE <<>>)
        \o (IF hasDisabled THEN <<"disabled">> ELSE <<>>)

\* the ComponentStructure extract_structure assembles
Structure(source, variant_lookup, size_lookup) ==
    [name |-> UnwrapOr(extract_component_name(source), "Component"),
     variant_lookup |-> variant_lookup,
     size_lookup |-> size_lookup,
     base_classes |-> UnwrapOr(extract_base_classes(source), ""),
     disabled_classes |->
         UnwrapOr(extract_disabled_classes(source), DefaultDisabledClasses),
     default_variant |->
         IF variant_lookup = <<>> THEN "default" ELSE variant_lookup[1][1],
     default_size |->
         IF size_lookup = <<>> THEN "default" ELSE size_lookup[1][1],
     observed_attributes |-> extract_attributes(source)]

\* extract_structure once both extract_record calls returned
StructureFrom(source, variants, sizes) ==
    IF ~IsOk(variants) THEN variants
    ELSE IF variants[2] = <<>> THEN Err("MissingVariants")
    ELSE Ok(Structure(source, variants[2], IF IsOk(sizes) THEN sizes[2] ELSE <<>>))

\* ReactAdapter::extract_structure
extract_structure(source) ==
    StructureFrom(source, extract_record(source, "variantClasses"),
                  extract_record(source, "sizeClasses"))

\* generate_web_component: the artifact, as the values its template interpolates
generate_web_component(tag_name, structure) ==
    [tag_name |-> tag_name,
     name |-> structure.name,
     variantClasses |-> structure.variant_lookup,
     sizeClasses |-> structure.size_lookup,
     default_variant |-> structure.default_variant,
     default_size |-> structure.default_size]

\* ReactAdapter::transform
Transformed(structure, tag_name) ==
    IF ~IsOk(structure) THEN structure
    ELSE Ok([web_component |-> generate_web_component(tag_name, structure[2]),
             tag_name |-> tag_name,
             attributes |-> structure[2].observed_attributes])
transform(source, tag_name) == Transformed(extract_structure(source), tag_name)

ExtractInit ==
    /\ esource \in Sources(MaxItems)
    /\ epc = "start"
    /\ eresult = None

\* a call of ReactAdapter::extract_structure
ExtractStructure ==
    /\ epc = "start"
    /\ eresult' = Some(extract_structure(esource))
    /\ epc' = "extracted"
    /\ UNCHANGED esource
    /\ UNCHANGED notExtract

\* a call of ReactAdapter::transform
Transform ==
    /\ epc = "start"
    /\ eresult' = Some(transform(esource, "button-preview"))
    /\ epc' = "transformed"
    /\ UNCHANGED esource
    /\ UNCHANGED notExtract

ExtractNext == ExtractStructure \/ Transform

InitExtract == InlineIdle /\ RegistryIdle /\ PageIdle /\ SiteIdle /\ HmrIdle /\ ExtraIdle /\ ExtractInit

SpecExtract == InitExtract /\ [][ExtractNext]_vars

\* entry i of the source lies in the body of a record named `name`
InRecord(source, i, name) ==
    /\ source[i][1] = "entry"
    /\ \E j \in 1..(i - 1) :
          /\ source[j] = <<"const", name, "">>
          /\ \A k \in (j + 1)..i : source[k][1] = "entry"

HasItem(source, kind) == \E i \in 1..Len(source) : source[i][1] = kind
KeysOf(table) == {table[i][1] : i \in 1..Len(table)}

\* the ComponentStructure a successful call recovered
StructureOf(r) ==
    IF epc = "extracted" THEN r[2]
    ELSE [variant_lookup |-> r[2].web_component.variantClasses,
          size_lookup |-> r[2].web_component.sizeClasses,
          name |-> r[2].web_component.name,
          default_variant |-> r[2].web_component.default_variant,
          default_size |-> r[2].web_component.default_size]

\* C8: extract_structure and transform fail with MissingVariants exactly when
\* no variantClasses entry is recovered from the source, and with no other
\* error; a successful extraction has a non-empty variant table, and the
\* fields the source does not give hold their defaults.
C8_OnlyMissingVariants ==
    epc \in {"extracted", "transformed"} =>
        LET r == eresult[1]
            recovered == {i \in 1..Len(esource) : InRecord(esource, i, "variantClasses")}
            sized == {i \in 1..Len(esource) : InRecord(esource, i, "sizeClasses")}
        IN  /\ IsOk(r) <=> recovered # {}
            /\ ~IsOk(r) => r = Err("MissingVariants")
            /\ IsOk(r) =>
                  /\ StructureOf(r).variant_lookup # <<>>
                  /\ ~HasItem(esource, "function") => StructureOf(r).name = "Component"
                  /\ sized = {} => /\ StructureOf(r).size_lookup = <<>>
                                   /\ StructureOf(r).default_size = "default"
                  /\ epc = "extracted" =>
                        /\ ~HasItem(esource, "base") => r[2].base_classes = ""
                        /\ ~HasItem(esource, "disabled") =>
                              r[2].disabled_classes = DefaultDisabledClasses

\* C8, witness: a source with a sizeClasses record and a component function
\* but no variantClasses entry was refused with MissingVariants
C8_Witness ==
    /\ epc = "extracted"
    /\ eresult = Some(Err("MissingVariants"))
    /\ \E i \in 1..Len(esource) : InRecord(esource, i, "sizeClasses")
    /\ HasItem(esource, "function")

\* C9: in every extracted ComponentStructure the variant table and the size
\* table have unique keys (a key written twice is held once).
C9_UniqueKeys ==
    (epc = "extracted" /\ IsOk(eresult[1])) =>
        /\ Cardinality(KeysOf(eresult[1][2].variant_lookup))
              = Len(eresult[1][2].variant_lookup)
        /\ Cardinality(KeysOf(eresult[1][2].size_lookup))
              = Len(eresult[1][2].size_lookup)

\* the entries written in the records named `name`, in the order of the source
WrittenEntries(source, name) ==
    LET at == SelectSeq([i \in 1..Len(source) |-> i], LAMBDA i : InRecord(source, i, name))
    IN  [k \in 1..Len(at) |-> <<source[at[k]][2], source[at[k]][3]>>]

\* C19: a successful extraction lists the variant and the size entries in
\* source order; default_variant is the first key of the variant table and
\* default_size the first key of the size table, or "default" when the size
\* table is empty.
C19_SourceOrderAndDefaults ==
    (epc \in {"extracted", "transformed"} /\ IsOk(eresult[1])) =>
        LET s == StructureOf(eresult[1])
        IN  /\ s.variant_lookup = WrittenEntries(esource, "variantClasses")
            /\ s.size_lookup = WrittenEntries(esource, "sizeClasses")
            /\ s.default_variant = s.variant_lookup[1][1]
            /\ s.default_size =
                  IF s.size_lookup = <<>> THEN "default" ELSE s.size_lookup[1][1]

\* a source whose variant table starts with `secondary` and goes on with
\* `default` has been extracted
C19_Witness ==
    /\ epc = "extracted" /\ IsOk(eresult[1])
    /\ Len(eresult[1][2].variant_lookup) = 2
    /\ eresult[1][2].variant_lookup[1][1] = "secondary"
    /\ eresult[1][2].variant_lookup[2][1] = "default"

\* a source whose size table starts with `secondary` has been extracted
SizeDefaultWitness ==
    /\ epc = "extracted" /\ IsOk(eresult[1])
    /\ eresult[1][2].size_lookup # <<>>
    /\ eresult[1][2].default_size = "secondary"

(***************************************************************************)
(* Component registry (veneer-adapters/src/registry.rs).                   *)
(*                                                                         *)
(* A file name is the sequence of its dot-separated parts; a component     *)
(* name is a sequence of parts too (a file stem may hold dots).            *)
(***************************************************************************)
FileNames ==
    {<<"Button", "tsx">>, <<"button", "jsx">>, <<"Card", "tsx">>,
     <<"Button", "test", "tsx">>, <<"Card", "spec", "jsx">>,
     <<"Card", "stories", "tsx">>, <<"index", "tsx">>, <<"index", "jsx">>,
     <<"Button", "md">>}

VariantRecord == <<<<"const", "variantClasses", "">>, <<"entry", "default", "bg-a">>>>

\* what a file may hold: a component without a named function, one with a
\* named function, a module without variantClasses, or bytes that cannot be read
FileContents ==
    {[readable |-> TRUE, source |-> VariantRecord],
     [readable |-> TRUE, source |-> <<<<"function", "Button", "">>>> \o VariantRecord],
     [readable |-> TRUE, source |-> <<<<"function", "Button", "">>>>],
     [readable |-> FALSE, source |-> <<>>]}

\* str::to_lowercase, one word
ToLowerWord(w) ==
    CASE w = "Button" -> "button"
      [] w = "BUTTON" -> "button"
      [] w = "Card" -> "card"
      [] w = "C" -> "c"
      [] w = "A" -> "a"
      [] w = "TSX" -> "tsx"
      [] OTHER -> w

to_lowercase(name) == [i \in 1..Len(name) |-> ToLowerWord(name[i])]

\* Path::extension, Path::file_stem
extension(f) == IF Len(f) > 1 THEN f[Len(f)] ELSE ""
file_stem(f) == IF Len(f) > 1 THEN SubSeq(f, 1, Len(f) - 1) ELSE f

\* filename.contains(".test.") and its like
ContainsMarker(f, m) == \E i \in 2..(Len(f) - 1) : f[i] = m

\* a scan that tells files apart by their extension only
SkippedByExtension(f) == extension(f) \notin {"tsx", "jsx"}

\* the files scan skips before reading them
Skipped(f) ==
    \/ extension(f) \notin {"tsx", "jsx"}
    \/ ContainsMarker(f, "test")
    \/ ContainsMarker(f, "spec")
    \/ ContainsMarker(f, "stories")
    \/ f = <<"index", "tsx">>
    \/ f = <<"index", "jsx">>

Present(d) == {f \in FileNames : d[f] # None}

\* HashMap::insert
Insert(map, key, value) == {e \in map : e[1] # key} \cup {<<key, value>>}
ContainsKey(map, key) == \E e \in map : e[1] = key
Get(map, key) == IF ContainsKey(map, key)
                 THEN Some((CHOOSE e \in map : e[1] = key)[2]) ELSE None

\* the orders in which WalkDir may yield the files of the directory
Orders(S) ==
    {o \in [1..Cardinality(S) -> S] : \A i, j \in 1..Cardinality(S) : o[i] = o[j] => i = j}

\* the body of the scan loop for one directory entry; st = <<components, count>>
ScanEntry(st, f, d) ==
    LET content == d[f][1]
        structure == extract_structure(content.source)
        name == IF structure[2].name = "" \/ structure[2].name = "Component"
                THEN file_stem(f) ELSE <<structure[2].name>>
        cached == [name |-> name, source_path |-> f,
                   structure |-> structure[2], source |-> content.source]
    IN  IF Skipped(f) THEN st
        ELSE IF ~content.readable THEN st
        ELSE IF ~IsOk(structure) THEN st
        ELSE <<Insert(st[1], to_lowercase(name), cached), st[2] + 1>>

RECURSIVE ScanLoop(_, _, _, _)
ScanLoop(st, order, i, d) ==
    IF i > Len(order) THEN st
    ELSE ScanLoop(ScanEntry(st, order[i], d), order, i + 1, d)

\* ComponentRegistry::get, ComponentRegistry::contains
get(name) == Get(components, to_lowercase(name))
contains(name) == ContainsKey(components, to_lowercase(name))

\* ComponentRegistry::new over an empty components directory
RegistryInit ==
    /\ disk = [f \in FileNames |-> None]
    /\ dir_exists = TRUE
    /\ components = {}
    /\ rresult = None

\* a file is written into the components directory
WriteFile ==
    \E f \in FileNames, c \in FileContents :
        /\ dir_exists
        /\ disk[f] # Some(c)
        /\ Cardinality(Present(disk) \cup {f}) <= MaxFiles
        /\ disk' = [disk EXCEPT ![f] = Some(c)]
        /\ rresult' = None
        /\ UNCHANGED <<dir_exists, components>>
        /\ UNCHANGED notRegistry

\* a file is removed (or renamed away)
DeleteFile ==
    \E f \in Present(disk) :
        /\ disk' = [disk EXCEPT ![f] = None]
        /\ rresult' = None
        /\ UNCHANGED <<dir_exists, components>>
        /\ UNCHANGED notRegistry

\* the components directory itself is removed, or created again
RemoveDir ==
    /\ dir_exists
    /\ disk' = [f \in FileNames |-> None]
    /\ dir_exists' = FALSE
    /\ rresult' = None
    /\ UNCHANGED components
    /\ UNCHANGED notRegistry

CreateDir ==
    /\ ~dir_exists
    /\ dir_exists' = TRUE
    /\ rresult' = None
    /\ UNCHANGED <<disk, components>>
    /\ UNCHANGED notRegistry

\* ComponentRegistry::scan
Scan ==
    /\ rresult = None
    /\ IF ~dir_exists
       THEN /\ rresult' = Some(Err("DirectoryNotFound"))
            /\ UNCHANGED components
       ELSE \E order \in Orders(Present(disk)) :
               LET st == ScanLoop(<<components, 0>>, order, 1, disk)
               IN  /\ components' = st[1]
                   /\ rresult' = Some(Ok(st[2]))
    /\ UNCHANGED <<disk, dir_exists>>
    /\ UNCHANGED notRegistry

RegistryNext == WriteFile \/ DeleteFile \/ RemoveDir \/ CreateDir \/ Scan

InitRegistry == InlineIdle /\ ExtractIdle /\ PageIdle /\ SiteIdle /\ HmrIdle /\ ExtraIdle /\ RegistryInit

SpecRegistry == InitRegistry /\ [][RegistryNext]_vars

\* the files of the directory that a scan turns into an entry
Extractable(d) ==
    {f \in Present(d) :
        /\ ~Skipped(f)
        /\ d[f][1].readable
        /\ IsOk(extract_structure(d[f][1].source))}

\* the key under which scan stores the component of file f
KeyOf(f, d) ==
    LET structure == extract_structure(d[f][1].source)[2]
    IN  to_lowercase(IF structure.name = "Component"
                     THEN file_stem(f) ELSE <<structure.name>>)

\* C3: after a scan the index holds exactly the components that scan found in
\* the directory: no entry remains whose file is gone or no longer extractable.
C3_RescanReplacesIndex ==
    (rresult # None /\ IsOk(rresult[1])) =>
        {e[1] : e \in components} = {KeyOf(f, disk) : f \in Extractable(disk)}

\* C30: the count a scan returns on an empty registry is the number of
\* components the registry holds afterwards.
C30_CountIsRegistrySize ==
    [][(components = {} /\ rresult' # None /\ IsOk(rresult'[1]))
          => rresult'[1][2] = Cardinality(components')]_vars

\* the count is never smaller than the number of components held
CountCoversRegistry ==
    [][(components = {} /\ rresult' # None /\ IsOk(rresult'[1]))
          => rresult'[1][2] >= Cardinality(components')]_vars

\* a test, spec or story file, or an index file: `.test.`, `.spec.` or
\* `.stories.` occurs in the name, or the name is index.tsx / index.jsx
ExcludedName(f) ==
    \/ \E i \in 1..Len(f) : i > 1 /\ i < Len(f) /\ f[i] \in {"test", "spec", "stories"}
    \/ f \in {<<"index", "tsx">>, <<"index", "jsx">>}

\* C16: no registry entry comes from a test, spec, story or index file,
\* whatever the file holds.
C16_NoExcludedFiles ==
    \A e \in components : ~ExcludedName(e[2].source_path)

\* a scan has just run over a directory that holds an excluded file with a
\* valid variantClasses declaration
C16_Witness ==
    /\ rresult # None /\ IsOk(rresult[1])
    /\ \E f \in Present(disk) :
          /\ ExcludedName(f)
          /\ disk[f][1].readable
          /\ IsOk(extract_structure(disk[f][1].source))

(***************************************************************************)
(* Page build (veneer-static/src/builder.rs, build_page and                *)
(* render_markdown) over the code blocks parse_mdx hands it.               *)
(*                                                                         *)
(* A page body is the sequence of its code fences.  A fence is its info    *)
(* string, word by word, and its lines; a line is a block source under the *)
(* two readings the build gives it: the text parse_inline_jsx scans and    *)
(* the lexical items the extractor matches.                                *)
(***************************************************************************)
UseCa == [text |-> <<"<", "C", "a", "/", ">">>, items |-> <<>>]
UseCA == [text |-> <<"<", "C", "A", "/", ">">>, items |-> <<>>]
UseCx == [text |-> <<"<", "C", "x", "/", ">">>, items |-> <<>>]
UnclosedCa == [text |-> <<"<", "C", "a", ">">>, items |-> <<>>]
FullSource == [text |-> <<"x">>, items |-> VariantRecord]
BlockSources == {UseCa, UseCA, UseCx, UnclosedCa, FullSource}

Infos == {<<"tsx", "live">>, <<"tsx">>, <<"css", "live">>}

\* a page is written line by line: a line opens a new fence with its info
\* string, or (info = <<>>) continues the fence before it
PageLines == [info : Infos \cup {<<>>}, source : BlockSources]

RECURSIVE Fences(_)
Fences(ls) ==
    IF ls = <<>> THEN <<>>
    ELSE LET before == Fences(SubSeq(ls, 1, Len(ls) - 1))
             l == ls[Len(ls)]
         IN  IF l.info = <<>>
             THEN [before EXCEPT ![Len(before)].lines = Append(@, l.source)]
             ELSE Append(before, [info |-> l.info, lines |-> <<l.source>>])

Docs(n) ==
    {Fences(ls) : ls \in {q \in SeqsUpTo(PageLines, n) : q # <<>> /\ q[1].info # <<>>}}

\* Language::from_info, Language::is_transformable
Language_from_info(info) ==
    LET lang == IF info = <<>> THEN "" ELSE ToLowerWord(info[1])
    IN  CASE lang = "tsx" -> "Tsx"
          [] lang = "jsx" -> "Jsx"
          [] lang = "css" -> "Css"
          [] OTHER -> "Unknown"
is_transformable(language) == language \in {"Tsx", "Jsx"}

\* lower.contains(w), on the words of the info string
InfoHas(info, w) == \E i \in 1..Len(info) : ToLowerWord(info[i]) = w

\* BlockMode::from_info
BlockMode_from_info(info) ==
    IF InfoHas(info, "live") THEN "Live"
    ELSE IF InfoHas(info, "editable") THEN "Editable"
    ELSE IF InfoHas(info, "preview") THEN "Preview"
    ELSE "Source"

\* CodeBlock::new
CodeBlock(language, mode, source, line_number) ==
    [id |-> <<"block-", line_number>>, language |-> language, mode |-> mode,
     source |-> source, line_number |-> line_number]

is_live(block) == block.mode = "Live" /\ is_transformable(block.language)

RECURSIVE LinesBefore(_, _)
LinesBefore(d, j) == IF j <= 1 THEN 0 ELSE LinesBefore(d, j - 1) + Len(d[j - 1].lines)

\* parse_mdx, its code blocks: the parser delivers the text of a fence line by
\* line, and every Text event met inside a code block pushes a CodeBlock that
\* carries the line number the fence started at
RECURSIVE code_blocks(_, _)
code_blocks(d, j) ==
    IF j > Len(d) THEN <<>>
    ELSE [i \in 1..Len(d[j].lines) |->
             CodeBlock(Language_from_info(d[j].info), BlockMode_from_info(d[j].info),
                       d[j].lines[i], 1 + LinesBefore(d, j))]
         \o code_blocks(d, j + 1)

\* html_escape
EscapeChar(c) ==
    CASE c = "&" -> <<"&", "a", "m", "p", ";">>
      [] c = "<" -> <<"&", "l", "t", ";">>
      [] c = ">" -> <<"&", "g", "t", ";">>
      [] c = "\"" -> <<"&", "q", "u", "o", "t", ";">>
      [] c = "'" -> <<"&", "#", "x", "2", "7", ";">>
      [] OTHER -> <<c>>
\* an escape that leaves the apostrophe as it is
html_escape_keep_apostrophe(str) ==
    Flatten([i \in 1..Len(str) |-> IF str[i] = "'" THEN <<"'">> ELSE EscapeChar(str[i])])
html_escape(str) == Flatten([i \in 1..Len(str) |-> EscapeChar(str[i])])

\* to_custom_element: the element, as its tag, attributes and children
to_custom_element(j, tag_name) ==
    [tag_name |-> tag_name,
     attrs |-> {<<k, html_escape(j.props[k].text)>> :
                   k \in {n \in DOMAIN j.props : j.props[n].kind = "String"}}
               \cup {<<k>> : k \in {n \in DOMAIN j.props :
                                       j.props[n].kind = "Boolean" /\ j.props[n].flag}},
     children |-> j.children]

\* ComponentRegistry::generate_web_component
GenerateFor(cached, tag_name) ==
    IF cached = None THEN Err("ComponentNotFound")
    ELSE Ok([web_component |-> generate_web_component(tag_name, cached[1].structure),
             tag_name |-> tag_name,
             attributes |-> cached[1].structure.observed_attributes])
registry_generate_web_component(component_name, tag_name) ==
    GenerateFor(get(component_name), tag_name)

\* the locals of build_page before its loop
PageStart ==
    [components_count |-> 0, web_components |-> <<>>, generated_components |-> {},
     block_replacements |-> {}, warnings |-> <<>>]

Warn(st, block) == [st EXCEPT !.warnings = Append(@, block.id)]

\* generated_components.insert and web_components.push, unless memoized
Memoize(st, component_name, tag_name, transformed) ==
    IF ContainsKey(st.generated_components, component_name) THEN st
    ELSE [st EXCEPT !.generated_components = Insert(@, component_name, tag_name),
                    !.web_components = Append(@, transformed[2])]

\* block_replacements.insert of the custom element under the memoized tag
Replace(st, block, j, tag_name) ==
    [st EXCEPT
       !.block_replacements =
           Insert(@, block.id,
                  to_custom_element(j, UnwrapOr(Get(st.generated_components, j.component),
                                                tag_name))),
       !.components_count = @ + 1]

\* the registry branch of the loop body of build_page
RegistryBranchWith(st, block, j, tag_name, transformed) ==
    IF ~ContainsKey(st.generated_components, j.component) /\ ~IsOk(transformed)
    THEN Warn(st, block)
    ELSE Replace(Memoize(st, j.component, tag_name, transformed), block, j, tag_name)

PreviewTag(component_name) == to_lowercase(component_name) \o <<"-preview">>

RegistryBranch(st, block, j) ==
    RegistryBranchWith(st, block, j, PreviewTag(j.component),
        registry_generate_web_component(j.component, PreviewTag(j.component)))

\* the fallback branch: transform_block on the block's own source
FallbackWith(st, block, transformed) ==
    IF IsOk(transformed)
    THEN [st EXCEPT !.web_components = Append(@, transformed[2]),
                    !.components_count = @ + 1]
    ELSE Warn(st, block)

FallbackBranch(st, block) ==
    FallbackWith(st, block, transform(block.source.items, <<"preview-">> \o block.id))

\* the body of the loop of build_page over page.doc.code_blocks
BlockStepWith(st, block, j) ==
    IF ~is_live(block) THEN st
    ELSE IF j # None
    THEN IF contains(j[1].component)
         THEN RegistryBranch(st, block, j[1])
         ELSE Warn(st, block)
    ELSE FallbackBranch(st, block)

BlockStep(st, block) == BlockStepWith(st, block, parse_inline_jsx(block.source.text))

RECURSIVE BlockLoop(_, _, _)
BlockLoop(st, blocks, i) ==
    IF i > Len(blocks) THEN st ELSE BlockLoop(BlockStep(st, blocks[i]), blocks, i + 1)

\* the page content render_markdown works on: a fence as written, or the
\* preview container followed by the plain fence that replaced one
Fence(f) == [kind |-> "fence", html |-> None, info |-> f.info, lines |-> f.lines]
Preview(html, language, source) ==
    [kind |-> "preview", html |-> Some(html),
     info |-> <<IF language = "Jsx" THEN "jsx" ELSE "tsx">>, lines |-> <<source>>]
Content(d) == [i \in 1..Len(d) |-> Fence(d[i])]

\* ```[a-z]+\s+live[^\n]*\n on the opening line of a fence
InfoMatches(info) ==
    /\ Len(info) >= 2
    /\ info[1] \in {"tsx", "jsx", "css"}
    /\ info[2] = "live"

\* the fences the pattern built from the block source matches:
\* the opening line, then exactly the trimmed source, then the closing fence
PatternHits(content, source) ==
    {i \in 1..Len(content) :
        /\ InfoMatches(content[i].info)
        /\ content[i].lines = <<[source EXCEPT !.text = Trim(@)]>>}

\* the body of the loop of render_markdown: Regex::replace on the first match
RenderWith(content, block, replacement_html, hits) ==
    IF is_live(block) /\ replacement_html # None /\ hits # {}
    THEN [content EXCEPT ![CHOOSE i \in hits : \A k \in hits : i <= k] =
             Preview(replacement_html[1], block.language,
                     [block.source EXCEPT !.text = Trim(@)])]
    ELSE content

RenderStep(content, block, block_replacements) ==
    RenderWith(content, block, Get(block_replacements, block.id),
               PatternHits(content, block.source))

RECURSIVE render_markdown(_, _, _, _)
render_markdown(content, blocks, block_replacements, i) ==
    IF i > Len(blocks) THEN content
    ELSE render_markdown(RenderStep(content, blocks[i], block_replacements),
                         blocks, block_replacements, i + 1)

\* the registry a page is built against: the component Ca was scanned
CachedCa ==
    [name |-> <<"C", "a">>, source_path |-> <<"Ca", "tsx">>,
     structure |-> extract_structure(VariantRecord)[2], source |-> VariantRecord]

PageInit ==
    /\ doc \in Docs(MaxLines)
    /\ ppc = "start"
    /\ page = None
    /\ presult = None
    /\ components = Insert({}, to_lowercase(<<"C", "a">>), CachedCa)
    /\ disk = <<>> /\ dir_exists = FALSE /\ rresult = None

\* build_page up to the Context it hands to the template
Rendered(d, blocks, st) ==
    [web_components |-> st.web_components,
     block_replacements |-> st.block_replacements,
     components_count |-> st.components_count,
     warnings |-> st.warnings,
     content |-> render_markdown(Content(d), blocks, st.block_replacements, 1)]
Looped(d, blocks) == Rendered(d, blocks, BlockLoop(PageStart, blocks, 1))
build_page(d) == Looped(d, code_blocks(d, 1))

\* StaticBuilder::build_page; the template renderer and the file system may
\* each refuse
BuildPage ==
    /\ ppc = "start"
    /\ page' = Some(build_page(doc))
    /\ \E io \in {"written", "template", "create_dir_all", "write"} :
          presult' = Some(IF io = "written" THEN Ok(<<1, page'[1].components_count>>)
                          ELSE IF io = "template" THEN Err("TemplateError")
                          ELSE Err("WriteError"))
    /\ ppc' = "built"
    /\ UNCHANGED doc
    /\ UNCHANGED notPage

PageNext == BuildPage

InitPage == InlineIdle /\ ExtractIdle /\ SiteIdle /\ HmrIdle /\ ExtraIdle /\ PageInit

SpecPage == InitPage /\ [][PageNext]_vars

\* how the build treats the blocks of the page
Blocks == code_blocks(doc, 1)
FenceOf(b) == CHOOSE j \in 1..Len(doc) : 1 + LinesBefore(doc, j) = b.line_number
UsageOf(b) == parse_inline_jsx(b.source.text)
ViaRegistry(b) == is_live(b) /\ UsageOf(b) # None /\ contains(UsageOf(b)[1].component)
ViaFallback(b) ==
    /\ is_live(b) /\ UsageOf(b) = None
    /\ IsOk(transform(b.source.items, <<"preview-">> \o b.id))
Unresolvable(b) == is_live(b) /\ ~ViaRegistry(b) /\ ~ViaFallback(b)

\* the live blocks of the page that reference the registry component `key`
RefsTo(key) ==
    {k \in DOMAIN Blocks :
        /\ ViaRegistry(Blocks[k])
        /\ to_lowercase(UsageOf(Blocks[k])[1].component) = key}

\* the artifacts of the page generated for the registry component `key`
ArtifactsOf(key) ==
    {i \in DOMAIN page[1].web_components :
        page[1].web_components[i].tag_name = key \o <<"-preview">>}

\* C1: in one page build, a registry component referenced by any number of live
\* blocks has its artifact in web_components exactly once, and each of those
\* blocks has a replacement entry of its own.
C1_ArtifactOncePerComponent ==
    ppc = "built" =>
        \A e \in components :
            RefsTo(e[1]) # {} =>
                /\ Cardinality(ArtifactsOf(e[1])) = 1
                /\ \A k \in RefsTo(e[1]) :
                      Get(page[1].block_replacements, Blocks[k].id) # None
                /\ Cardinality({Blocks[k].id : k \in RefsTo(e[1])})
                      = Cardinality(RefsTo(e[1]))

\* C27: within one page build no two artifacts of web_components register the
\* same custom-element tag name.
C27_TagNamesUnique ==
    ppc = "built" =>
        \A i, k \in 1..Len(page[1].web_components) :
            page[1].web_components[i].tag_name = page[1].web_components[k].tag_name
                => i = k

\* C6: every live block the build transformed (through the registry or
\* through the fallback) has its fence replaced in the page content by a
\* preview container followed by its fenced source.
C6_TransformedBlocksReplaced ==
    ppc = "built" =>
        \A k \in DOMAIN Blocks :
            (ViaRegistry(Blocks[k]) \/ ViaFallback(Blocks[k])) =>
                /\ page[1].content[FenceOf(Blocks[k])].kind = "preview"
                /\ page[1].content[FenceOf(Blocks[k])].html # None
                /\ page[1].content[FenceOf(Blocks[k])].lines
                      = <<[Blocks[k].source EXCEPT !.text = Trim(@)]>>

DocFile(parent, stem, ext) ==
    [parent |-> parent, stem |-> stem, ext |-> ext, readable |-> TRUE, parses |-> TRUE,
     slug |-> None, order |-> None, doc |-> <<>>]

\* the files a docs directory may hold
ButtonMdx ==
    [DocFile(<<>>, "button", "mdx") EXCEPT
        !.doc = <<[info |-> <<"tsx", "live">>, lines |-> <<UseCa>>]>>]
ButtonIndexMdx ==
    [DocFile(<<"button">>, "index", "mdx") EXCEPT
        !.doc = <<[info |-> <<"tsx", "live">>, lines |-> <<UseCa>>],
                  [info |-> <<"tsx", "live">>, lines |-> <<UseCa>>]>>]
GuideMd ==
    [DocFile(<<>>, "guide", "md") EXCEPT
        !.order = Some(1),
        !.doc = <<[info |-> <<"tsx", "live">>, lines |-> <<UseCa>>],
                  [info |-> <<"tsx", "live">>, lines |-> <<UseCA>>]>>]
CardSlugMdx == [DocFile(<<>>, "card", "mdx") EXCEPT !.slug = Some(<<"cards", "card">>)]
BrokenMdx == [DocFile(<<>>, "broken", "mdx") EXCEPT !.parses = FALSE]
LockedMdx == [DocFile(<<>>, "locked", "mdx") EXCEPT !.readable = FALSE]
NotesTxt == DocFile(<<>>, "notes", "txt")
DocFiles == {ButtonMdx, ButtonIndexMdx, GuideMd, CardSlugMdx, BrokenMdx, LockedMdx, NotesTxt}

output_dir == <<"dist">>

\* StaticBuilder::calculate_output_path
calculate_output_path(f) ==
    IF f.slug # None THEN output_dir \o f.slug[1] \o <<"index.html">>
    ELSE IF f.stem = "index" THEN output_dir \o f.parent \o <<"index.html">>
    ELSE output_dir \o f.parent \o <<f.stem, "index.html">>

PageInfo(f) ==
    [source_path |-> <<"docs">> \o f.parent \o <<f.stem, f.ext>>,
     relative_path |-> f.parent \o <<f.stem, f.ext>>,
     output_path |-> calculate_output_path(f),
     order |-> f.order,
     doc |-> f.doc]

\* the loop of discover_pages over the directory walk
RECURSIVE DiscoverLoop(_, _, _)
DiscoverLoop(walk, i, found) ==
    IF i > Len(walk) THEN Ok(found)
    ELSE IF walk[i].ext \notin {"mdx", "md"} THEN DiscoverLoop(walk, i + 1, found)
    ELSE IF ~walk[i].readable THEN Err("ReadError")
    ELSE IF ~walk[i].parses THEN Err("ParseError")
    ELSE DiscoverLoop(walk, i + 1, Append(found, PageInfo(walk[i])))

\* pages.sort_by on the frontmatter order, 999 when absent: a stable sort
OrderOf(p) == UnwrapOr(p.order, 999)
InsertByOrder(sorted, p, k) == SubSeq(sorted, 1, k) \o <<p>> \o SubSeq(sorted, k + 1, Len(sorted))
RECURSIVE SortByOrder(_)
SortByOrder(ps) ==
    IF ps = <<>> THEN <<>>
    ELSE InsertByOrder(SortByOrder(SubSeq(ps, 1, Len(ps) - 1)), ps[Len(ps)],
             Cardinality({i \in 1..(Len(ps) - 1) : OrderOf(ps[i]) <= OrderOf(ps[Len(ps)])}))

Sorted(found) == IF IsOk(found) THEN Ok(SortByOrder(found[2])) ELSE found
discover_pages(walk) == Sorted(DiscoverLoop(walk, 1, <<>>))

SiteInit ==
    /\ sfiles \in {fs \in SUBSET DocFiles : Cardinality(fs) <= MaxPages}
    /\ spc = "start"
    /\ pages = <<>>
    /\ task = <<>>
    /\ written = {}
    /\ sresult = None
    /\ locals = <<>>
    /\ components = Insert({}, to_lowercase(<<"C", "a">>), CachedCa)
    /\ disk = <<>> /\ dir_exists = FALSE /\ rresult = None

\* build once discover_pages returned: stop on its error, or dispatch the tasks
Dispatch(found) ==
    IF IsOk(found)
    THEN /\ pages' = found[2]
         /\ task' = [i \in 1..Len(found[2]) |-> "ready"]
         /\ locals' = [i \in 1..Len(found[2]) |-> [st |-> PageStart, next |-> 1]]
         /\ spc' = "building"
         /\ UNCHANGED sresult
    ELSE /\ sresult' = Some(found)
         /\ spc' = "done"
         /\ UNCHANGED <<pages, task, locals>>

\* build up to the parallel dispatch: create_dir_all(output_dir), discover_pages
StartBuild ==
    /\ spc = "start"
    /\ \E dir_made \in BOOLEAN, walk \in Orders(sfiles) :
          IF dir_made THEN Dispatch(discover_pages(walk))
          ELSE /\ sresult' = Some(Err("WriteError"))
               /\ spc' = "done"
               /\ UNCHANGED <<pages, task, locals>>
    /\ UNCHANGED <<sfiles, written>>
    /\ UNCHANGED <<components, disk, dir_exists, rresult>>
    /\ UNCHANGED <<inlineVars, extractVars, pageVars, hmrVars, extraVars>>

\* build_page of page i: one iteration of its loop over page.doc.code_blocks,
\* on the locals of that call
TransformBlock ==
    \E i \in DOMAIN task :
        /\ spc = "building" /\ task[i] = "ready"
        /\ locals[i].next <= Len(code_blocks(pages[i].doc, 1))
        /\ locals' = [locals EXCEPT
                         ![i].st = BlockStep(@, code_blocks(pages[i].doc, 1)[locals[i].next]),
                         ![i].next = @ + 1]
        /\ UNCHANGED <<sfiles, spc, pages, task, written, sresult>>
        /\ UNCHANGED <<components, disk, dir_exists, rresult>>
        /\ UNCHANGED <<inlineVars, extractVars, pageVars, hmrVars, extraVars>>

\* build_page of page i, its loop done: the template is rendered
RenderTemplate ==
    \E i \in DOMAIN task, rendered \in BOOLEAN :
        /\ spc = "building" /\ task[i] = "ready"
        /\ locals[i].next > Len(code_blocks(pages[i].doc, 1))
        /\ task' = [task EXCEPT ![i] = IF rendered THEN "rendered" ELSE "TemplateError"]
        /\ UNCHANGED <<sfiles, spc, pages, written, sresult, locals>>
        /\ UNCHANGED <<components, disk, dir_exists, rresult>>
        /\ UNCHANGED <<inlineVars, extractVars, pageVars, hmrVars, extraVars>>

\* build_page of page i: fs::create_dir_all(parent)
CreateDirAll ==
    \E i \in DOMAIN task, made \in BOOLEAN :
        /\ spc = "building" /\ task[i] = "rendered"
        /\ task' = [task EXCEPT ![i] = IF made THEN "dir_made" ELSE "WriteError"]
        /\ UNCHANGED <<sfiles, spc, pages, written, sresult, locals>>
        /\ UNCHANGED <<components, disk, dir_exists, rresult>>
        /\ UNCHANGED <<inlineVars, extractVars, pageVars, hmrVars, extraVars>>

\* build_page of page i: fs::write(output_path, html)
WriteOutput ==
    \E i \in DOMAIN task, wrote \in BOOLEAN :
        /\ spc = "building" /\ task[i] = "dir_made"
        /\ task' = [task EXCEPT ![i] = IF wrote THEN "written" ELSE "WriteError"]
        /\ written' = IF wrote
                      THEN written \cup {[path |-> pages[i].output_path, by |-> i]}
                      ELSE written
        /\ UNCHANGED <<sfiles, spc, pages, sresult, locals>>
        /\ UNCHANGED <<components, disk, dir_exists, rresult>>
        /\ UNCHANGED <<inlineVars, extractVars, pageVars, hmrVars, extraVars>>

TaskFailed(i) == task[i] \in {"TemplateError", "WriteError"}

RECURSIVE total_components(_)
total_components(i) ==
    IF i = 0 THEN 0
    ELSE total_components(i - 1) + locals[i].st.components_count

\* build after the parallel map: the results in page order, the first error
\* returned; then the assets, the search index and the sitemap
Collect ==
    /\ spc = "building"
    /\ \A i \in DOMAIN task : task[i] = "written" \/ TaskFailed(i)
    /\ \E generated \in BOOLEAN :
          sresult' = Some(
             IF \E i \in DOMAIN task : TaskFailed(i)
             THEN Err(task[CHOOSE i \in DOMAIN task :
                              TaskFailed(i) /\ \A k \in 1..(i - 1) : ~TaskFailed(k)])
             ELSE IF generated
             THEN Ok([pages |-> Len(pages), components |-> total_components(Len(pages))])
             ELSE Err("WriteError"))
    /\ spc' = "done"
    /\ UNCHANGED <<sfiles, pages, task, written, locals>>
    /\ UNCHANGED <<components, disk, dir_exists, rresult>>
    /\ UNCHANGED <<inlineVars, extractVars, pageVars, hmrVars, extraVars>>

SiteNext ==
    StartBuild \/ TransformBlock \/ RenderTemplate \/ CreateDirAll \/ WriteOutput \/ Collect

InitSite == InlineIdle /\ ExtractIdle /\ PageIdle /\ HmrIdle /\ ExtraIdle /\ SiteInit

SpecSite == InitSite /\ [][SiteNext]_vars

\* C4: the output paths of distinct discovered pages are pairwise distinct, and
\* no output file is written by two page tasks.
C4_OutputPathsDisjoint ==
    /\ \A i, k \in DOMAIN pages :
          i # k => pages[i].output_path # pages[k].output_path
    /\ \A w1, w2 \in written : w1.path = w2.path => w1.by = w2.by

\* the documentation files that can be read and parsed
GoodFiles == {f \in sfiles : f.ext \in {"mdx", "md"} /\ f.readable /\ f.parses}

\* the build reported the failure of a page
PageFailureReported ==
    /\ spc = "done"
    /\ ~IsOk(sresult[1])
    /\ \/ sresult[1][2] \in {"ReadError", "ParseError"}
       \/ \E i \in DOMAIN task : TaskFailed(i)

\* C5: when the build reports the failure of one page, every sibling page that
\* did not fail itself has been built and written to its output path.
C5_SiblingsStillWritten ==
    PageFailureReported =>
        \A f \in GoodFiles :
            (\A i \in DOMAIN pages :
                pages[i].relative_path = PageInfo(f).relative_path => ~TaskFailed(i))
            => \E w \in written : w.path = calculate_output_path(f)

\* the loop of the build_page task of page i is done
LoopDone(i) == locals[i].next > Len(code_blocks(pages[i].doc, 1))

\* the live blocks of document d that reference the registry component `key`
UsesOf(d, key) ==
    {k \in DOMAIN code_blocks(d, 1) :
        /\ is_live(code_blocks(d, 1)[k])
        /\ parse_inline_jsx(code_blocks(d, 1)[k].source.text) # None
        /\ to_lowercase(parse_inline_jsx(code_blocks(d, 1)[k].source.text)[1].component) = key}

\* the artifacts task i generated for the registry component `key`
TaskArtifacts(i, key) ==
    {n \in DOMAIN locals[i].st.web_components :
        locals[i].st.web_components[n].tag_name = key \o <<"-preview">>}

\* C15: memoization is scoped to one page build: under every interleaving of
\* the page tasks, a task ends its loop with the locals its page alone
\* determines, and a page that uses a registry component holds that
\* component's artifact exactly once.
C15_MemoPerPage ==
    \A i \in DOMAIN locals :
        LoopDone(i) =>
            /\ locals[i].st = BlockLoop(PageStart, code_blocks(pages[i].doc, 1), 1)
            /\ \A e \in components :
                  UsesOf(pages[i].doc, e[1]) # {} => Cardinality(TaskArtifacts(i, e[1])) = 1

\* the scoping alone: a task's locals are what its page alone determines
MemoIsolated ==
    \A i \in DOMAIN locals :
        LoopDone(i) => locals[i].st = BlockLoop(PageStart, code_blocks(pages[i].doc, 1), 1)

(***************************************************************************)
(* The host that evaluates a generated artifact (generator.rs), and the    *)
(* hot-reload path that sends artifacts to it (server.rs, websocket.rs).   *)
(***************************************************************************)
\* the hosts: a browser; a DOM shim that defines HTMLElement but no
\* customElements; a host without any DOM global
Hosts == {"browser", "shim", "bare"}
HasHTMLElement(h) == h \in {"browser", "shim"}
HasCustomElements(h) == h = "browser"

ComponentStems == {"Button", "Card"}
VariantRecordB == <<<<"const", "variantClasses", "">>, <<"entry", "default", "bg-b">>>>
ComponentSources == {VariantRecord, VariantRecordB, <<<<"function", "Button", "">>>>}

IsDefined(reg, tag_name) == \E e \in reg : e[1] = tag_name

\* the evaluation of the artifact text: `class .. extends HTMLElement`, then
\* `if (typeof customElements !== 'undefined') customElements.define(tag, class)`
Evaluated(h, reg, artifact) ==
    IF ~HasHTMLElement(h)
    THEN [registered |-> reg, error |-> Some("ReferenceError")]
    ELSE IF ~HasCustomElements(h)
    THEN [registered |-> reg, error |-> None]
    ELSE IF IsDefined(reg, artifact.tag_name)
    THEN [registered |-> reg, error |-> Some("NotSupportedError")]
    ELSE [registered |-> reg \cup {<<artifact.tag_name, artifact>>}, error |-> None]

\* the host evaluates an artifact
Evaluate(artifact) ==
    /\ registered' = Evaluated(host, registered, artifact).registered
    /\ last_eval' = Some([tag_name |-> artifact.tag_name,
                          defined_before |-> IsDefined(registered, artifact.tag_name),
                          error |-> Evaluated(host, registered, artifact).error])

\* HmrMessage
Reload == [type |-> "reload", tag_name |-> <<>>, web_component |-> <<>>]
UpdateComponent(tag_name, web_component) ==
    [type |-> "update_component", tag_name |-> tag_name, web_component |-> web_component]

\* the message handle_watch_event sends for a component file that was read
ComponentMessage(result) ==
    IF IsOk(result) THEN UpdateComponent(result[2].tag_name, result[2].web_component)
    ELSE Reload

StemTag(stem) == <<ToLowerWord(stem), "-preview">>

HmrInit ==
    /\ host \in Hosts
    /\ registered = {}
    /\ last_eval = None
    /\ channel = <<>>
    /\ edits = 0

\* a page is loaded whose markup carries a generated artifact
LoadArtifact ==
    \E stem \in ComponentStems, source \in {VariantRecord, VariantRecordB} :
        /\ Evaluate(generate_web_component(StemTag(stem), extract_structure(source)[2]))
        /\ UNCHANGED <<host, channel, edits>>
        /\ UNCHANGED notHmr

\* handle_watch_event, WatchEvent::ComponentModified
ComponentModified ==
    \E stem \in ComponentStems, source \in ComponentSources, readable \in BOOLEAN :
        /\ edits < MaxEdits /\ Len(channel) < MaxQueue
        /\ channel' = IF readable
                      THEN Append(channel, ComponentMessage(transform(source, StemTag(stem))))
                      ELSE channel
        /\ edits' = edits + 1
        /\ UNCHANGED <<host, registered, last_eval>>
        /\ UNCHANGED notHmr

\* handle_watch_event, every other WatchEvent
OtherModified ==
    /\ edits < MaxEdits /\ Len(channel) < MaxQueue
    /\ channel' = Append(channel, Reload)
    /\ edits' = edits + 1
    /\ UNCHANGED <<host, registered, last_eval>>
    /\ UNCHANGED notHmr

\* ws.onmessage of the client script
ClientMessage ==
    /\ host = "browser"
    /\ channel # <<>>
    /\ channel' = Tail(channel)
    /\ IF Head(channel).type = "reload"
       THEN registered' = {} /\ last_eval' = None
       ELSE Evaluate(Head(channel).web_component)
    /\ UNCHANGED <<host, edits>>
    /\ UNCHANGED notHmr

HmrNext == LoadArtifact \/ ComponentModified \/ OtherModified \/ ClientMessage

InitHmr == InlineIdle /\ ExtractIdle /\ RegistryIdle /\ PageIdle /\ SiteIdle /\ ExtraIdle /\ HmrInit

SpecHmr == InitHmr /\ [][HmrNext]_vars

\* C10: evaluating an artifact in a host where its tag name is already defined
\* raises no error and leaves the tag registered.
C10_RegistrationIdempotent ==
    (last_eval # None /\ last_eval[1].defined_before) =>
        /\ last_eval[1].error = None
        /\ IsDefined(registered, last_eval[1].tag_name)

\* C11: evaluating an artifact in a host without any DOM global (no
\* customElements, no HTMLElement, no document) raises no error and registers
\* nothing.
C11_NoDomNoOp ==
    (host = "bare" /\ last_eval # None) =>
        /\ last_eval[1].error = None
        /\ registered = {}

(***************************************************************************)
(* The generated element class at run time (generator.rs, the text of the  *)
(* artifact): the instances of one element on a page, the page's style     *)
(* sheets, and the module-level cache `cachedSheets`.                      *)
(***************************************************************************)
Instances == {1, 2}

\* the clones #adoptStyles builds: one per sheet whose cssRules can be read
ReadableSheets(sheets) == SelectSeq([i \in 1..Len(sheets) |-> i], LAMBDA i : sheets[i])

ElementInit ==
    /\ styleSheets = <<>>
    /\ cachedSheets = None
    /\ adopted = [e \in Instances |-> <<>>]
    /\ button = [e \in Instances |-> None]
    /\ shadow = [e \in Instances |-> <<>>]
    /\ reads = 0
    /\ assigns = 0
    /\ connects = 0

\* the page gains a style sheet, same-origin (readable) or cross-origin
AddStyleSheet ==
    \E readable \in BOOLEAN :
        /\ Len(styleSheets) < MaxSheets
        /\ styleSheets' = Append(styleSheets, readable)
        /\ UNCHANGED <<cachedSheets, adopted, button, shadow, reads, assigns, connects>>
        /\ UNCHANGED notElement

\* how many times instance e has rendered; the button of render n is n
RenderCount(e) == IF button[e] = None THEN 0 ELSE button[e][1]

\* a #render that appends the new button and leaves the old one in place
RenderKeepingOld(e) ==
    /\ RenderCount(e) < MaxRenders
    /\ button' = [button EXCEPT ![e] = Some(RenderCount(e) + 1)]
    /\ shadow' = [shadow EXCEPT ![e] = Append(@, RenderCount(e) + 1)]

\* #render of instance e: remove #button if set, create a button, append it
Render(e) ==
    /\ RenderCount(e) < MaxRenders
    /\ button' = [button EXCEPT ![e] = Some(RenderCount(e) + 1)]
    /\ shadow' = [shadow EXCEPT
                    ![e] = Append(SelectSeq(@, LAMBDA b : button[e] = None \/ b # button[e][1]),
                                  RenderCount(e) + 1)]

\* #adoptStyles of instance e, the cache being set
AdoptCached(e) ==
    /\ adopted' = [adopted EXCEPT ![e] = cachedSheets[1]]
    /\ UNCHANGED <<cachedSheets, reads, assigns>>

\* #adoptStyles of instance e, the cache being null: read the page's sheets
AdoptFresh(e, sheets) ==
    /\ reads' = reads + 1
    /\ IF Len(sheets) > 0
       THEN /\ cachedSheets' = Some(sheets)
            /\ assigns' = assigns + 1
            /\ adopted' = [adopted EXCEPT ![e] = sheets]
       ELSE UNCHANGED <<cachedSheets, assigns, adopted>>

\* connectedCallback: #adoptStyles, then #render
ConnectedCallback ==
    \E e \in Instances :
        /\ connects < MaxConnects
        /\ IF cachedSheets # None THEN AdoptCached(e)
           ELSE AdoptFresh(e, ReadableSheets(styleSheets))
        /\ Render(e)
        /\ connects' = connects + 1
        /\ UNCHANGED styleSheets
        /\ UNCHANGED notElement

\* attributeChangedCallback: #render
AttributeChangedCallback ==
    \E e \in Instances :
        /\ Render(e)
        /\ UNCHANGED <<styleSheets, cachedSheets, adopted, reads, assigns, connects>>
        /\ UNCHANGED notElement

ElementNext == AddStyleSheet \/ ConnectedCallback \/ AttributeChangedCallback

InitElement == FirstIdle /\ MdxIdle /\ CallIdle /\ NavIdle /\ WatchIdle /\ ElementInit

SpecElement == InitElement /\ [][ElementNext]_vars

\* C12: the page's style sheets are read by the first connectedCallback and
\* never again, and the cache is assigned at most once, however many
\* connectedCallbacks run.
C12_SheetsComputedOnce ==
    connects >= 1 =>
        /\ reads = 1
        /\ assigns <= 1

\* C25: after any sequence of connectedCallback and attributeChangedCallback
\* invocations the shadow root of an element holds exactly one button, the
\* one made by the latest render.
C25_OneRenderedButton ==
    \A e \in Instances :
        IF button[e] = None THEN shadow[e] = <<>> ELSE shadow[e] = <<button[e][1]>>

\* an element was connected and has rendered MaxRenders times
C25_Witness ==
    /\ connects >= 1
    /\ \E e \in Instances : button[e] = Some(MaxRenders) /\ adopted[e] # <<>>

(***************************************************************************)
(* MDX parser (veneer-mdx/src/parser.rs, frontmatter.rs).  A document is   *)
(* its frontmatter (None, or the number of its YAML lines) and its body,   *)
(* block by block: a heading, a blank line, a paragraph of one or two      *)
(* lines, or a code fence with its info string and its code lines.         *)
(***************************************************************************)
Block(kind, text, info, lines) == [kind |-> kind, text |-> text, info |-> info, lines |-> lines]
HeadingBlock(text) == Block("heading", text, <<>>, <<>>)
BlankBlock == Block("blank", <<>>, <<>>, <<>>)
ParaBlock(lines) == Block("para", <<>>, <<>>, lines)
FenceBlock(info, lines) == Block("fence", <<>>, info, lines)

LineA == <<"a">>
LineB == <<"b">>
Title == <<"A", "P", "I">>

BodyBlocks ==
    {HeadingBlock(Title), BlankBlock, ParaBlock(<<LineA>>), ParaBlock(<<LineA, LineB>>)}
    \cup {FenceBlock(info, lines) :
             info \in {<<"tsx", "live">>, <<"css">>},
             lines \in {<<>>, <<LineA>>, <<LineA, LineB>>}}

\* two paragraphs written one after the other are one paragraph
WellFormed(body) ==
    \A i \in 1..(Len(body) - 1) : ~(body[i].kind = "para" /\ body[i + 1].kind = "para")

Frontmatters == {None, Some(1), Some(2)}

MdxSources(n) ==
    {[front |-> f, body |-> b] :
        f \in Frontmatters, b \in {q \in SeqsUpTo(BodyBlocks, n) : WellFormed(q)}}

\* how many lines of the file a block takes
LinesOf(b) ==
    CASE b.kind = "heading" -> 1
      [] b.kind = "blank" -> 1
      [] b.kind = "para" -> Len(b.lines)
      [] b.kind = "fence" -> Len(b.lines) + 2

\* extract_frontmatter, on the lines of the source: the content is what follows
\* the closing `---`, trim_start()ed, so the blank lines after the frontmatter
\* belong to the prefix; without frontmatter the content is the source
LeadingBlanks(body) ==
    LET run == {i \in 0..Len(body) : \A k \in 1..i : body[k].kind = "blank"}
    IN  CHOOSE i \in run : \A j \in run : j <= i
extract_frontmatter(source) ==
    IF source.front = None THEN [frontmatter |-> None, content |-> source.body, prefix |-> 0]
    ELSE [frontmatter |-> source.front,
          content |-> Drop(source.body, LeadingBlanks(source.body)),
          prefix |-> source.front[1] + 2 + LeadingBlanks(source.body)]

\* source[..frontmatter_lines].lines().count()
frontmatter_line_offset(source) == extract_frontmatter(source).prefix

\* the events the markdown parser delivers for a block; the text of a code
\* block arrives line by line, each line with its newline
Event(type, text, info) == [type |-> type, text |-> text, info |-> info]
RECURSIVE ParaEvents(_)
ParaEvents(lines) ==
    IF Len(lines) = 1 THEN <<Event("Text", lines[1], <<>>)>>
    ELSE <<Event("Text", Head(lines), <<>>), Event("SoftBreak", <<>>, <<>>)>>
         \o ParaEvents(Tail(lines))
EventsOf(b) ==
    CASE b.kind = "heading" ->
            <<Event("StartHeading", <<>>, <<>>), Event("Text", b.text, <<>>),
              Event("EndHeading", <<>>, <<>>)>>
      [] b.kind = "blank" -> <<>>
      [] b.kind = "para" ->
            <<Event("Other", <<>>, <<>>)>> \o ParaEvents(b.lines)
            \o <<Event("Other", <<>>, <<>>)>>
      [] b.kind = "fence" ->
            <<Event("StartCodeBlock", <<>>, b.info)>>
            \o [i \in 1..Len(b.lines) |-> Event("Text", b.lines[i] \o <<"\n">>, <<>>)]
            \o <<Event("EndCodeBlock", <<>>, <<>>)>>
Events(content) == Flatten([i \in 1..Len(content) |-> EventsOf(content[i])])

\* text.matches('\n').count()
Newlines(text) == Cardinality({i \in 1..Len(text) : text[i] = "\n"})

\* char::to_lowercase, is_alphanumeric, is_whitespace on the characters used
LowerChar(c) ==
    CASE c = "A" -> "a"
      [] c = "P" -> "p"
      [] c = "I" -> "i"
      [] OTHER -> c
IsAlphanumeric(c) == c \in {"a", "b", "p", "i", "1", "A", "P", "I"}
IsWhitespace(c) == c \in {" ", "\t", "\n"}

\* the map closure of slugify; <<>> stands for the '\0' the filter drops
SlugChar(c) ==
    IF IsAlphanumeric(c) THEN <<c>>
    ELSE IF IsWhitespace(c) \/ c = "-" \/ c = "_" THEN <<"-">>
    ELSE <<>>

\* str::split('-')
RECURSIVE Split(_)
Split(s) ==
    IF Find(s, <<"-">>) = None THEN <<s>>
    ELSE <<SubSeq(s, 1, Find(s, <<"-">>)[1])>> \o Split(Drop(s, Find(s, <<"-">>)[1] + 1))

\* [..].join("-")
RECURSIVE Join(_)
Join(parts) ==
    IF parts = <<>> THEN <<>>
    ELSE IF Len(parts) = 1 THEN parts[1]
    ELSE parts[1] \o <<"-">> \o Join(Tail(parts))

\* slugify
slugify(text) ==
    Join(SelectSeq(Split(Flatten([i \in 1..Len(text) |-> SlugChar(LowerChar(text[i]))])),
                   LAMBDA s : s # <<>>))

\* the loop of parse_mdx over the events
WalkStart ==
    [current_code_block |-> None, current_heading |-> None, line_number |-> 1,
     code_blocks |-> <<>>, toc |-> <<>>]

OnText(st, text, offset) ==
    [(IF st.current_code_block # None
      THEN [st EXCEPT !.code_blocks =
               Append(@, CodeBlock(Language_from_info(st.current_code_block[1].info),
                                   BlockMode_from_info(st.current_code_block[1].info),
                                   text, st.current_code_block[1].line))]
      ELSE IF st.current_heading # None
      THEN [st EXCEPT !.current_heading = Some(@[1] \o text)]
      ELSE st)
     EXCEPT !.line_number = @ + Newlines(text)]

WalkStep(st, ev, offset) ==
    CASE ev.type = "StartCodeBlock" ->
            [st EXCEPT !.current_code_block =
                Some([info |-> ev.info, line |-> st.line_number + offset])]
      [] ev.type = "Text" -> OnText(st, ev.text, offset)
      [] ev.type = "EndCodeBlock" -> [st EXCEPT !.current_code_block = None]
      [] ev.type = "StartHeading" -> [st EXCEPT !.current_heading = Some(<<>>)]
      [] ev.type = "EndHeading" ->
            IF st.current_heading = None THEN st
            ELSE [st EXCEPT !.current_heading = None,
                            !.toc = Append(@, [title |-> st.current_heading[1],
                                               id |-> slugify(st.current_heading[1])])]
      [] ev.type = "SoftBreak" -> [st EXCEPT !.line_number = @ + 1]
      [] OTHER -> st

RECURSIVE Walk(_, _, _, _)
Walk(st, events, i, offset) ==
    IF i > Len(events) THEN st ELSE Walk(WalkStep(st, events[i], offset), events, i + 1, offset)

\* parse_mdx
Parsed(fm, walked) ==
    Ok([frontmatter |-> fm.frontmatter, content |-> fm.content,
        code_blocks |-> walked.code_blocks, toc |-> walked.toc])
parse_mdx(source) ==
    Parsed(extract_frontmatter(source),
           Walk(WalkStart, Events(extract_frontmatter(source).content), 1,
                frontmatter_line_offset(source)))

MdxInit ==
    /\ msource \in MdxSources(MaxBlocks)
    /\ mpc = "start"
    /\ mdoc = None

ParseMdx ==
    /\ mpc = "start"
    /\ mdoc' = Some(parse_mdx(msource))
    /\ mpc' = "parsed"
    /\ UNCHANGED msource
    /\ UNCHANGED notMdx

MdxNext == ParseMdx

InitMdx == FirstIdle /\ ElementIdle /\ CallIdle /\ NavIdle /\ WatchIdle /\ MdxInit

SpecMdx == InitMdx /\ [][MdxNext]_vars

\* the line of the file on which block i of the body starts: the frontmatter
\* lines (its YAML lines and the two `---`), then the lines of the blocks before
RECURSIVE LinesUpTo(_, _)
LinesUpTo(body, i) == IF i = 0 THEN 0 ELSE LinesUpTo(body, i - 1) + LinesOf(body[i])
FileLine(source, i) ==
    (IF source.front = None THEN 0 ELSE source.front[1] + 2) + LinesUpTo(source.body, i - 1) + 1

\* the fences of the body that hold code, in source order
CodeFences(source) ==
    SelectSeq([i \in 1..Len(source.body) |-> i],
              LAMBDA i : source.body[i].kind = "fence" /\ source.body[i].lines # <<>>)

\* C13: the line_number of every CodeBlock is the 1-indexed line of the
\* original file on which its code block starts.
C13_LineNumberIsFileLine ==
    mpc = "parsed" =>
        \A k \in DOMAIN mdoc[1][2].code_blocks :
            \E i \in 1..Len(msource.body) :
                /\ msource.body[i].kind = "fence"
                /\ mdoc[1][2].code_blocks[k].line_number = FileLine(msource, i)
                /\ \E n \in DOMAIN msource.body[i].lines :
                      mdoc[1][2].code_blocks[k].source = msource.body[i].lines[n] \o <<"\n">>

\* the whole content of a fence: its lines, each with its newline
ContentOf(b) == Flatten([n \in 1..Len(b.lines) |-> b.lines[n] \o <<"\n">>])

OneBlockPerOneLineFence ==
    (mpc = "parsed" /\ \A i \in 1..Len(msource.body) : Len(msource.body[i].lines) <= 1
                                                       \/ msource.body[i].kind # "fence") =>
        /\ Len(mdoc[1][2].code_blocks) = Len(CodeFences(msource))
        /\ \A k \in 1..Len(CodeFences(msource)) :
              mdoc[1][2].code_blocks[k].source
                  = ContentOf(msource.body[CodeFences(msource)[k]])

ElementTag == <<"c", "-", "p">>
KeyA == <<"a">>
KeyB == <<"b">>
ValueChars == {"&", "<", ">", "\"", "'", "a"}

\* the second prop of a usage, next to the String prop under KeyA
OtherProps ==
    {<<>>, KeyB :> Boolean(TRUE), KeyB :> Boolean(FALSE), KeyB :> Expression(<<"a", ">">>)}

Usages(n) ==
    {[component |-> <<"C">>, props |-> (KeyA :> String(v)) @@ o, children |-> c,
      self_closing |-> c = None] :
        v \in SeqsUpTo(ValueChars, n), o \in OtherProps, c \in {None, Some(<<"x">>)}}

\* format!(r#"{}="{}""#, key, ..) for a String prop, the key alone for a Boolean
AttrText(a) == IF Len(a) = 2 THEN a[1] \o <<"=", "\"">> \o a[2] \o <<"\"">> ELSE a[1]

\* attrs.join(" ")
RECURSIVE JoinSpace(_)
JoinSpace(parts) ==
    IF parts = <<>> THEN <<>>
    ELSE IF Len(parts) = 1 THEN parts[1]
    ELSE parts[1] \o <<" ">> \o JoinSpace(Tail(parts))

\* the String returned by to_custom_element, its attributes pushed in the given order
Format(el, order) ==
    LET attrs_str == IF order = <<>> THEN <<>>
                     ELSE <<" ">> \o JoinSpace([i \in 1..Len(order) |-> AttrText(order[i])])
        children == IF el.children = None THEN <<>> ELSE el.children[1]
    IN  <<"<">> \o el.tag_name \o attrs_str \o <<">">> \o children
        \o <<"<", "/">> \o el.tag_name \o <<">">>

RenderInit ==
    /\ arg \in {Some(<<j, ElementTag>>) : j \in Usages(MaxChars)}
    /\ ret = None

ToCustomElement ==
    /\ arg # None /\ ret = None
    /\ \E order \in Orders(to_custom_element(arg[1][1], arg[1][2]).attrs) :
          ret' = Some(Format(to_custom_element(arg[1][1], arg[1][2]), order))
    /\ UNCHANGED <<arg, notCall>>

RenderNext == ToCustomElement

InitRender == FirstIdle /\ ElementIdle /\ MdxIdle /\ NavIdle /\ WatchIdle /\ RenderInit

SpecRender == InitRender /\ [][RenderNext]_vars

\* the entities of HTML that stand for the five characters
Entities ==
    {<<"&", <<"&", "a", "m", "p", ";">> >>, <<"<", <<"&", "l", "t", ";">> >>,
     <<">", <<"&", "g", "t", ";">> >>, <<"\"", <<"&", "q", "u", "o", "t", ";">> >>,
     <<"'", <<"&", "#", "x", "2", "7", ";">> >>}

\* what an HTML reader makes of attribute text: None where a character of
\* the five stands unescaped, else the Some of the value it denotes
RECURSIVE Decode(_)
Decode(t) ==
    IF t = <<>> THEN Some(<<>>)
    ELSE LET hit == {e \in Entities : StartsWith(t, e[2])}
             e == CHOOSE x \in hit : TRUE
             n == IF hit = {} THEN 1 ELSE Len(e[2])
             rest == Decode(Drop(t, n))
         IN  IF hit = {} /\ t[1] \in {"&", "<", ">", "\"", "'"} THEN None
             ELSE IF rest = None THEN None
             ELSE Some((IF hit = {} THEN <<t[1]>> ELSE <<e[1]>>) \o rest[1])

\* the value an HTML reader takes for the first quoted attribute of the text
\* written: from the first `="` to the next `"`
QuotedValue(out) ==
    LET from == Find(out, <<"=", "\"">>)[1] + 2
        upto == Find(Drop(out, from), <<"\"">>)[1]
    IN  SubSeq(out, from + 1, from + upto)

\* the open tag of the text written: up to its first `>`
OpenTag(out) == SubSeq(out, 1, Find(out, <<">">>)[1] + 1)

\* C17: the String prop value is written with each of & < > " ' replaced by
\* its entity: the attribute text holds none of them unescaped and reads
\* back as the value, and the open tag ends after the attributes.
C17_StringPropsEscaped ==
    ret # None =>
        /\ Decode(QuotedValue(ret[1])) = Some(arg[1][1].props[KeyA].text)
        /\ OpenTag(ret[1])[Len(OpenTag(ret[1])) - 1] \in {"\"", "b"}

\* a value made of the five characters only has been rendered
C17_Witness ==
    /\ ret # None
    /\ Len(arg[1][1].props[KeyA].text) = MaxChars
    /\ \A i \in 1..MaxChars : arg[1][1].props[KeyA].text[i] # "a"
    /\ \E i \in 1..MaxChars : arg[1][1].props[KeyA].text[i] = "'"
    /\ \E i \in 1..MaxChars : arg[1][1].props[KeyA].text[i] = "\""

(***************************************************************************)
(* Heading slugs (veneer-mdx/src/parser.rs, slugify), over every heading   *)
(* text of the alphabet up to the bound.                                   *)
(***************************************************************************)
HeadingChars == {"A", "b", "1", " ", "-", "_", "."}

SlugInit ==
    /\ arg \in {Some(text) : text \in SeqsUpTo(HeadingChars, MaxChars)}
    /\ ret = None

\* a call of slugify
Slugify ==
    /\ arg # None /\ ret = None
    /\ ret' = Some(slugify(arg[1]))
    /\ UNCHANGED <<arg, notCall>>

SlugNext == Slugify

InitSlug == FirstIdle /\ ElementIdle /\ MdxIdle /\ NavIdle /\ WatchIdle /\ SlugInit

SpecSlug == InitSlug /\ [][SlugNext]_vars

\* the text with every non-alphanumeric character turned into a hyphen
Hyphenated(text) ==
    [i \in 1..Len(text) |->
        IF IsAlphanumeric(LowerChar(text[i])) THEN LowerChar(text[i]) ELSE "-"]

\* a run of hyphens cut down to its first
Collapsed(s) ==
    LET keep == SelectSeq([i \in 1..Len(s) |-> i],
                          LAMBDA i : ~(s[i] = "-" /\ i > 1 /\ s[i - 1] = "-"))
    IN  [k \in 1..Len(keep) |-> s[keep[k]]]

\* the hyphens at both ends removed
Stripped(s) ==
    LET lead == PrefixLen(s, {"-"})
        rest == Drop(s, lead)
        back == PrefixLen([i \in 1..Len(rest) |-> rest[Len(rest) + 1 - i]], {"-"})
    IN  SubSeq(rest, 1, Len(rest) - back)

\* C20: slugify returns the lowercased text with each maximal run of
\* non-alphanumeric characters replaced by one hyphen and without leading or
\* trailing hyphens.
C20_SlugHyphenatesRuns ==
    ret # None => ret[1] = Stripped(Collapsed(Hyphenated(arg[1])))

\* the same, for heading texts whose only non-alphanumeric characters are
\* whitespace, `-` and `_`
SlugOfSeparators ==
    (ret # None /\ \A i \in 1..Len(arg[1]) : arg[1][i] # ".") =>
        ret[1] = Stripped(Collapsed(Hyphenated(arg[1])))

(***************************************************************************)
(* Navigation (veneer-static/src/builder.rs, build_navigation), run on a   *)
(* list of pages as discover_pages returns it.                             *)
(***************************************************************************)
\* a page: its directory under docs, its stem, and its frontmatter
NavFile(parent, stem, fm) ==
    [parent |-> parent, stem |-> stem, ext |-> "mdx", slug |-> None, frontmatter |-> fm]
Fm(title, nav) == Some([title |-> title, nav |-> nav])

NavFiles ==
    {NavFile(<<>>, "intro", None),
     NavFile(<<>>, "hidden", Fm("Hidden", FALSE)),
     NavFile(<<"guides">>, "start", Fm("Start", TRUE)),
     NavFile(<<"guides">>, "more", None),
     NavFile(<<"api">>, "index", Fm("Api", TRUE)),
     NavFile(<<"api">>, "secret", Fm("Secret", FALSE)),
     NavFile(<<"api", "guides">>, "deep", None)}

NavPage(f) ==
    [relative_path |-> f.parent \o <<f.stem, f.ext>>,
     output_path |-> calculate_output_path(f),
     frontmatter |-> f.frontmatter]

\* relative_path.parent() and relative_path.file_stem()
ParentOf(p) == SubSeq(p.relative_path, 1, Len(p.relative_path) - 2)
StemOf(p) == p.relative_path[Len(p.relative_path) - 1]

\* capitalize: the first letter in upper case
capitalize(s) ==
    CASE s = "guides" -> "Guides"
      [] s = "api" -> "Api"
      [] OTHER -> s

\* path_to_url: base_url, then the parent of the output path below output_dir
path_to_url(path) == <<"/">> \o SubSeq(path, Len(output_dir) + 1, Len(path) - 1)

\* a loop that skips no page
InNavAlways(p) == TRUE

InNav(p) == p.frontmatter = None \/ p.frontmatter[1].nav

NavItem(title, path, children) == [title |-> title, path |-> path, children |-> children]

\* the item build_navigation pushes for a page
ItemOf(p) ==
    NavItem(IF p.frontmatter = None THEN StemOf(p) ELSE p.frontmatter[1].title,
            path_to_url(p.output_path), <<>>)

\* dirs after the loop over the pages: the items grouped under a directory
DirItems(ps, dir) ==
    LET at == SelectSeq([i \in 1..Len(ps) |-> i],
                        LAMBDA i : InNav(ps[i]) /\ ParentOf(ps[i]) = dir)
    IN  [k \in 1..Len(at) |-> ItemOf(ps[at[k]])]
DirKeys(ps) == {ParentOf(ps[i]) : i \in {k \in 1..Len(ps) : InNav(ps[k])}}

\* the item pushed for a subdirectory
Section(ps, dir) ==
    NavItem(capitalize(dir[Len(dir)]), <<"/">> \o dir, DirItems(ps, dir))

\* build_navigation, the HashMap handing out its directories in the given order
build_navigation(ps, order) ==
    DirItems(ps, <<>>) \o [k \in 1..Len(order) |-> Section(ps, order[k])]

NavInit ==
    /\ npages \in {[i \in 1..Len(q) |-> NavPage(q[i])] :
                     q \in {r \in SeqsUpTo(NavFiles, MaxNavPages) :
                              \A i, k \in 1..Len(r) : r[i] = r[k] => i = k}}
    /\ navs = <<>>

\* one run of build_navigation on the pages
BuildNavigation ==
    /\ Len(navs) < MaxRuns
    /\ \E order \in Orders(DirKeys(npages) \ {<<>>}) :
          navs' = Append(navs, build_navigation(npages, order))
    /\ UNCHANGED <<npages, notNav>>

NavNext == BuildNavigation

InitNav == FirstIdle /\ ElementIdle /\ MdxIdle /\ CallIdle /\ WatchIdle /\ NavInit

SpecNav == InitNav /\ [][NavNext]_vars

\* the page is to be shown: nav is true, or it has no frontmatter
Shown(p) == p.frontmatter = None \/ p.frontmatter[1].nav = TRUE

\* where the item of page p stands in a navigation: <<i>> at the top, <<i, k>>
\* as child k of top-level item i
PlacesOf(nav, p) ==
    {<<i>> : i \in {n \in 1..Len(nav) : nav[n] = ItemOf(p)}}
    \cup UNION {{<<i, k>> : k \in {n \in 1..Len(nav[i].children) :
                                     nav[i].children[n] = ItemOf(p)}} : i \in 1..Len(nav)}

\* C21: the navigation is a two-level tree holding every shown page exactly
\* once and no page with nav = false; root pages are flat top-level items,
\* a page of a subdirectory is a child of one top-level item labelled with
\* the capitalized directory name, and no child has children.
C21_TwoLevelTree ==
    \A r \in 1..Len(navs) :
        /\ \A i \in 1..Len(navs[r]) : \A k \in 1..Len(navs[r][i].children) :
              navs[r][i].children[k].children = <<>>
        /\ \A n \in 1..Len(npages) :
              LET places == PlacesOf(navs[r], npages[n])
                  dir == ParentOf(npages[n])
              IN  /\ ~Shown(npages[n]) => places = {}
                  /\ Shown(npages[n]) =>
                        /\ Cardinality(places) = 1
                        /\ \A pl \in places :
                              IF dir = <<>> THEN Len(pl) = 1
                              ELSE /\ Len(pl) = 2
                                   /\ navs[r][pl[1]].title = capitalize(dir[Len(dir)])

\* a navigation was built from a root page, a hidden page and a page of a
\* subdirectory
C21_Witness ==
    /\ navs # <<>>
    /\ \E a, b, c \in 1..Len(npages) :
          /\ Shown(npages[a]) /\ ParentOf(npages[a]) = <<>>
          /\ ~Shown(npages[b])
          /\ Shown(npages[c]) /\ ParentOf(npages[c]) # <<>>

\* C29: build_navigation is deterministic: two runs on the same list of
\* pages return the same sequence of items, the order of the subdirectory
\* sections included.
C29_NavigationDeterministic ==
    \A r, s \in 1..Len(navs) : navs[r] = navs[s]

\* two runs on the same pages hold the same items, whatever their order
SameItemsEachRun ==
    \A r, s \in 1..Len(navs) :
        {navs[r][i] : i \in 1..Len(navs[r])} = {navs[s][i] : i \in 1..Len(navs[s])}

(***************************************************************************)
(* Frontmatter extraction on the text of a source                          *)
(* (veneer-mdx/src/frontmatter.rs, extract_frontmatter).                   *)
(***************************************************************************)
Marker == <<"-", "-", "-">>
SourceParts == {Marker, <<"\n">> \o Marker, <<" ">>, <<"\n">>, <<"a">>, <<"-">>}
SourceTexts(n) == {Flatten(q) : q \in SeqsUpTo(SourceParts, n)}

\* the rest of extract_frontmatter once the opening marker was found; `valid`
\* is whether serde_yaml accepts the YAML text
AfterOpen(after_open, close_pos, valid) ==
    IF close_pos = None THEN Err("Unclosed")
    ELSE IF ~valid THEN Err("InvalidYaml")
    ELSE Ok(<<Some(Trim(SubSeq(after_open, 1, close_pos[1]))),
              TrimStart(Drop(after_open, close_pos[1] + 4))>>)

\* extract_frontmatter handing back the trimmed text when there is no marker
extract_frontmatter_trimmed(source, valid) ==
    IF ~StartsWith(TrimStart(source), Marker) THEN Ok(<<None, TrimStart(source)>>)
    ELSE AfterOpen(Drop(TrimStart(source), 3),
                   Find(Drop(TrimStart(source), 3), <<"\n">> \o Marker), valid)

\* extract_frontmatter, on the text
extract_frontmatter_text(source, valid) ==
    IF ~StartsWith(TrimStart(source), Marker) THEN Ok(<<None, source>>)
    ELSE AfterOpen(Drop(TrimStart(source), 3),
                   Find(Drop(TrimStart(source), 3), <<"\n">> \o Marker), valid)

FrontmatterInit ==
    /\ arg \in {Some(text) : text \in SourceTexts(MaxParts)}
    /\ ret = None

\* a call of extract_frontmatter
ExtractFrontmatter ==
    /\ arg # None /\ ret = None
    /\ \E valid \in BOOLEAN : ret' = Some(extract_frontmatter_text(arg[1], valid))
    /\ UNCHANGED <<arg, notCall>>

FrontmatterNext == ExtractFrontmatter

InitFrontmatter == FirstIdle /\ ElementIdle /\ MdxIdle /\ NavIdle /\ WatchIdle /\ FrontmatterInit

SpecFrontmatter == InitFrontmatter /\ [][FrontmatterNext]_vars

\* the text after its leading whitespace does not begin with the marker
NoMarker(text) ==
    LET lead == PrefixLen(text, {" ", "\t", "\n"})
    IN  ~(Len(text) >= lead + 3 /\ \A k \in 1..3 : text[lead + k] = "-")

\* C22: for an input whose text after leading whitespace does not begin with
\* the three-dash marker, extract_frontmatter returns (None, the input
\* unchanged, leading whitespace included) and no error.
C22_NoMarkerIdentity ==
    (ret # None /\ NoMarker(arg[1])) => ret[1] = Ok(<<None, arg[1]>>)

\* an input that starts with whitespace and holds dashes but no marker has
\* been handled
C22_Witness ==
    /\ ret # None /\ NoMarker(arg[1])
    /\ Len(arg[1]) >= 3
    /\ arg[1][1] \in {" ", "\n"}
    /\ \E k \in 1..Len(arg[1]) : arg[1][k] = "-"

(***************************************************************************)
(* File watching of the dev server (veneer-server/src/watcher.rs and       *)
(* server.rs): the notify callback, the forwarder thread with its          *)
(* debounce, and the task that runs handle_watch_event.                    *)
(***************************************************************************)
EventKinds == {"Create", "Modify", "Remove", "Access"}
Extensions == {"mdx", "tsx", "css"}

\* classify_event
classify_event(ext, kind) ==
    CASE kind = "Create" -> Some("Created")
      [] kind = "Remove" -> Some("Deleted")
      [] kind = "Modify" ->
            IF ext \in {"mdx", "md"} THEN Some("MdxModified")
            ELSE IF ext \in {"tsx", "jsx", "ts", "js"} THEN Some("ComponentModified")
            ELSE Some("Modified")
      [] OTHER -> None

\* the thread starts with last_event_time = now, so no quiet time has passed
WatchInit ==
    /\ changes = <<>>
    /\ sync_q = <<>>
    /\ quiet = FALSE
    /\ async_q = <<>>
    /\ answered = {}
    /\ dropped = {}

\* a file event in a watched directory: the notify callback sends it on sync_tx
FileEvent ==
    \E kind \in EventKinds, ext \in Extensions :
        /\ Len(changes) < MaxEdits
        /\ changes' = Append(changes, [kind |-> kind, ext |-> ext])
        /\ sync_q' = Append(sync_q, [id |-> Len(changes) + 1, kind |-> kind, ext |-> ext])
        /\ UNCHANGED <<quiet, async_q, answered, dropped>>
        /\ UNCHANGED notWatch

\* debounce_duration goes by without the forwarder taking an event
Elapse ==
    /\ ~quiet
    /\ quiet' = TRUE
    /\ UNCHANGED <<changes, sync_q, async_q, answered, dropped>>
    /\ UNCHANGED notWatch

\* one iteration of the forwarder loop: recv, debounce, classify, blocking_send
Forward ==
    /\ sync_q # <<>>
    /\ sync_q' = Tail(sync_q)
    /\ IF ~quiet
       THEN /\ dropped' = dropped \cup {Head(sync_q).id}
            /\ UNCHANGED <<quiet, async_q>>
       ELSE /\ quiet' = FALSE
            /\ IF classify_event(Head(sync_q).ext, Head(sync_q).kind) = None
               THEN UNCHANGED <<async_q, dropped>>
               ELSE /\ Len(async_q) < MaxQueue
                    /\ async_q' = Append(async_q,
                           [id |-> Head(sync_q).id,
                            event |-> classify_event(Head(sync_q).ext, Head(sync_q).kind)[1]])
                    /\ UNCHANGED dropped
    /\ UNCHANGED <<changes, answered>>
    /\ UNCHANGED notWatch

\* handle_watch_event on the next WatchEvent; for ComponentModified the file
\* may no longer be readable, and its transformation may fail
HandleWatchEvent ==
    \E readable \in BOOLEAN, transforms \in BOOLEAN :
        /\ async_q # <<>>
        /\ async_q' = Tail(async_q)
        /\ IF Head(async_q).event # "ComponentModified"
           THEN /\ answered' = answered \cup {<<Head(async_q).id, "Reload", Len(changes)>>}
                /\ UNCHANGED dropped
           ELSE IF ~readable
           THEN /\ dropped' = dropped \cup {Head(async_q).id}
                /\ UNCHANGED answered
           ELSE /\ answered' = answered \cup
                       {<<Head(async_q).id,
                          IF transforms THEN "UpdateComponent" ELSE "Reload",
                          Len(changes)>>}
                /\ UNCHANGED dropped
        /\ UNCHANGED <<changes, sync_q, quiet>>
        /\ UNCHANGED notWatch

WatchNext == FileEvent \/ Elapse \/ Forward \/ HandleWatchEvent

InitWatch == FirstIdle /\ ElementIdle /\ MdxIdle /\ CallIdle /\ NavIdle /\ WatchInit

SpecWatch == InitWatch /\ [][WatchNext]_vars

\* the forwarder thread and the handler task keep running, and time goes by
SpecWatchLive ==
    /\ SpecWatch
    /\ WF_vars(Forward) /\ WF_vars(HandleWatchEvent) /\ WF_vars(Elapse)

\* change c is a create, a modify or a delete
IsChange(c) == c <= Len(changes) /\ changes[c].kind \in {"Create", "Modify", "Remove"}

\* C28: every create, modify or delete of a watched file is eventually
\* followed by an HMR message sent to the clients (a message sent when the
\* change had been made, whichever event brought it about).
C28_EveryChangeAnswered ==
    \A c \in 1..MaxEdits : IsChange(c) ~> (\E a \in answered : a[3] >= c)

\* no create, modify or delete is discarded on the way to handle_watch_event
NoChangeDropped == \A c \in dropped : ~IsChange(c)

\* an event that reaches handle_watch_event as anything but an unreadable
\* ComponentModified is answered
DeliveredIsAnswered ==
    \A c \in 1..MaxEdits :
        (\E i \in 1..Len(async_q) : async_q[i].id = c /\ async_q[i].event # "ComponentModified")
            ~> (\E a \in answered : a[1] = c)

====
